---- MODULE Spec2Model ----
(***************************************************************************)
(* Layout matching (cvm/balance/balance.py, make_balance) and multi-layout *)
(* resolution (cvm/balances/balance_sheet.py, BalanceSheet.from_accounts). *)
(*                                                                         *)
(* An account code is the sequence of its dot-separated segments, so       *)
(* "1.01" is <<1, 1>>; a layout entry is the tuple                          *)
(* <<expected_code, expected_name, attr>>.  Indices into the layout are    *)
(* 0-based as in the source (variable i); positions in the account         *)
(* sequence are 1-based, pos being the number of accounts already pulled   *)
(* from the iterator.                                                      *)
(***************************************************************************)
EXTENDS Integers, Sequences, FiniteSets, TLC

\* make_balance: its arguments, its locals, the calls it makes, its outcome
VARIABLES layout, accounts, pc, max_layout_level, i, pos, attributes,
          calls, err, obj

\* make_balance, its parser object: the accounts handed to the parser that
\* the local variable parser refers to, and what the parsers of the earlier
\* calls were left holding
VARIABLES parser, earlier

\* BalanceSheet.from_accounts: its arguments, its locals, the validators it
\* runs, its outcome
VARIABLES bpa_accounts, bpp_accounts, rpc, pair, bpa_attrs, bpp_attrs,
          error_str, runs, sheet, raised

\* from_accounts, the bookkeeping of its attempts: every validator run with
\* the position its cursor started at and the accounts it pulled, how far the
\* cursor of each side was last advanced, and which validators produced
\* bpa_attrs and the returned sheet
VARIABLES attempts, bpa_consumed, bpp_consumed, bpa_by, built_from

\* Statement.balance and Statement._parse_balance: the statement, the
\* candidate classes, the shared iterator, the attempts made, the outcome
VARIABLES st_group, st_accounts, st_pc, cls_list, cls_idx, accounts_iter,
          st_attempts, st_result

\* One BalanceSheet value: its fields, the cached properties stored in its
\* __dict__, the evaluations of each property body, the reads made
VARIABLES bs, bs_dict, evals, reads

\* Calls of from_accounts in progress at the same time: the locals of each
\* call, and the list objects their error_str variables refer to
VARIABLES frames, lists

\* _read_raw_statements and reader: the columns the CSV header lacks, the rows
\* of the file, the rows consumed, the locals prev_row and stmts, what became
\* of each row, where the function stands, the statements reader has yielded
VARIABLES csv_missing, csv_rows, row_index, prev_row, stmts, fates, raw_pc,
          stmt_index, yielded

\* fca._reader: the documents of the head file, the heads read, the position
\* in the loop body, the parts read for the current head, the body reads made
\* for it, the messages printed for it, the failures so far, the ids of the
\* FCAs yielded, the FCA most recently yielded
VARIABLES heads, head_idx, f_pc, parts, body_reads, printed, failures,
          fcas, last_fca

\* CommonReader.read_many: the rows of the batch, the rows consumed, the local
\* items, the lines skipped, where the method stands
VARIABLES batch, line, items, skipped, rm_pc

mvars == <<layout, accounts, pc, max_layout_level, i, pos, attributes,
           calls, err, obj, parser, earlier>>

rvars == <<bpa_accounts, bpp_accounts, rpc, pair, bpa_attrs, bpp_attrs,
           error_str, runs, sheet, raised,
           attempts, bpa_consumed, bpp_consumed, bpa_by, built_from>>

svars == <<st_group, st_accounts, st_pc, cls_list, cls_idx, accounts_iter,
           st_attempts, st_result>>

dvars == <<bs, bs_dict, evals, reads>>

cvars == <<frames, lists>>

wvars == <<csv_missing, csv_rows, row_index, prev_row, stmts, fates, raw_pc,
           stmt_index, yielded>>

fvars == <<heads, head_idx, f_pc, parts, body_reads, printed, failures,
           fcas, last_fca>>

bvars == <<batch, line, items, skipped, rm_pc>>

vars == <<mvars, rvars, svars, dvars, cvars, wvars, fvars, bvars>>

\* Longest account sequence handed to make_balance.
MaxAccounts == 4

\* Longest assets and liabilities account sequences handed to from_accounts.
MaxBpa == 3
MaxBpp == 2

\* Longest account list of a Statement.
MaxStatement == 3

\* Most reads of the cached properties of one BalanceSheet.
MaxReads == 4

\* Most calls of from_accounts in progress at the same time.
MaxCallers == 2

\* Most rows of the CSV file handed to reader.
MaxRows == 3

\* Most documents of the head file of an FCA archive, and most body reads
\* that fail while it is read.
MaxDocuments == 2
MaxFailures == 2

\* Most rows of the batch handed to read_many.
MaxBatch == 4

\* Most calls of make_balance one after the other, and the longest account
\* sequence handed to one of them.
MaxCalls == 2
MaxCallAccounts == 3

----------------------------------------------------------------------------
\* Data

Account(code, name, quantity, is_fixed) ==
    [code |-> code, name |-> name, quantity |-> quantity, is_fixed |-> is_fixed]

AccountPool ==
    { Account(<<1>>,       "Ativo Total", 1000, TRUE),
      Account(<<1, 1>>,    "Caixa",       50,   TRUE),
      Account(<<1, 2>>,    "Aplicacoes",  70,   TRUE),
      Account(<<1, 1>>,    "Bancos",      60,   TRUE),
      Account(<<1, 1, 1>>, "Caixa",       7,    TRUE),
      Account(<<1, 1>>,    "Caixa",       9,    FALSE) }

\* The __layout__ tables of the balance classes matched here: each has at
\* least one entry, so max_layout_level is defined.
Layouts ==
    { << <<(<<1>>), "Ativo Total", "total_assets">> >>,
      << <<(<<1>>), "Ativo Total", "total_assets">>,
         <<(<<1, 1>>), "Caixa", "cash_and_cash_equivalents">> >>,
      << <<(<<1>>), "Ativo Total", "total_assets">>,
         <<(<<1, 1>>), "Caixa", "cash_and_cash_equivalents">>,
         <<(<<1, 2>>), "Aplicacoes", "financial_investments">> >> }

RECURSIVE SeqsUpTo(_, _)
SeqsUpTo(S, n) ==
    IF n = 0 THEN { <<>> }
    ELSE LET shorter == SeqsUpTo(S, n - 1)
         IN  shorter \cup { Append(s, x) : s \in { t \in shorter : Len(t) = n - 1 }, x \in S }

NoError == [kind |-> "none", index |-> 0, found |-> <<>>, expected |-> <<>>]

BalanceLayoutError(kind, index, found, expected) ==
    [kind |-> kind, index |-> index, found |-> found, expected |-> expected]

NoObj == [made |-> FALSE, fields |-> <<>>]

\* None, and a value that is not None
None == [some |-> FALSE, v |-> 0]
Some(n) == [some |-> TRUE, v |-> n]

\* no outcome of Statement.balance yet
NoResult == [kind |-> "none", cls |-> "", attempts |-> <<>>]

\* the fields of a BalanceSheet the derived properties read
Fields(cl, ncl, cash) ==
    [current_loans_and_financing    |-> cl,
     noncurrent_loans_and_financing |-> ncl,
     cash_and_cash_equivalents      |-> cash]

NoFields == Fields(None, None, Some(0))

Call(op, k, idx) == [op |-> op, k |-> k, idx |-> idx]

----------------------------------------------------------------------------
\* Helpers of make_balance

\* t[0].count('.') + 1
CodeLevel(code) == IF Len(code) = 0 THEN 1 ELSE Len(code)

\* Account.level
Level(acc) == CodeLevel(acc.code)

RECURSIVE MaxOver(_)
MaxOver(s) ==
    IF Len(s) = 1 THEN s[1]
    ELSE LET m == MaxOver(Tail(s)) IN IF s[1] >= m THEN s[1] ELSE m

\* max(t[0].count('.') + 1 for t in cls.__layout__)
MaxLayoutLevel(lay) == MaxOver([n \in 1..Len(lay) |-> CodeLevel(lay[n][1])])

\* every pulled account compared, the test of line 36 left out
IsCompared_Always(acc, maxlvl) == TRUE

\* the level test left out of line 36
IsCompared_FixedOnly(acc, maxlvl) == acc.is_fixed

\* acc.is_fixed and acc.level <= max_layout_level
IsCompared(acc, maxlvl) == acc.is_fixed /\ Level(acc) <= maxlvl

\* the map rebuilt instead of updated at line 42
SetItem_Rebuild(d, key, value) == [k \in {key} |-> value]

\* attributes[attr] = acc.quantity
SetItem(d, key, value) ==
    [k \in (DOMAIN d) \cup {key} |-> IF k = key THEN value ELSE d[k]]

----------------------------------------------------------------------------
\* make_balance

\* from_accounts not running
ResolverIdle ==
    /\ bpa_accounts = <<>>
    /\ bpp_accounts = <<>>
    /\ rpc = "idle"
    /\ pair = 0
    /\ bpa_attrs = <<>>
    /\ bpp_attrs = <<>>
    /\ error_str = <<>>
    /\ runs = <<>>
    /\ sheet = NoObj
    /\ raised = <<>>
    /\ attempts = <<>>
    /\ bpa_consumed = 0
    /\ bpp_consumed = 0
    /\ bpa_by = ""
    /\ built_from = <<>>

\* no Statement being parsed
StatementIdle ==
    /\ st_group = "BPA"
    /\ st_accounts = <<>>
    /\ st_pc = "idle"
    /\ cls_list = <<>>
    /\ cls_idx = 0
    /\ accounts_iter = 0
    /\ st_attempts = <<>>
    /\ st_result = NoResult

\* no BalanceSheet being read
DebtIdle ==
    /\ bs = NoFields
    /\ bs_dict = <<>>
    /\ evals = [gross_debt |-> 0, net_debt |-> 0]
    /\ reads = <<>>

\* no calls of from_accounts side by side
CallersIdle ==
    /\ frames = <<>>
    /\ lists = <<>>

\* _read_raw_statements not running
RawIdle ==
    /\ csv_missing = ""
    /\ csv_rows = <<>>
    /\ row_index = 0
    /\ prev_row = <<>>
    /\ stmts = <<>>
    /\ fates = <<>>
    /\ raw_pc = "idle"
    /\ stmt_index = 0
    /\ yielded = <<>>

\* fca._reader not running
FcaIdle ==
    /\ heads = <<>>
    /\ head_idx = 0
    /\ f_pc = "idle"
    /\ parts = <<>>
    /\ body_reads = <<>>
    /\ printed = <<>>
    /\ failures = 0
    /\ fcas = <<>>
    /\ last_fca = <<>>

\* read_many not running
ManyIdle ==
    /\ batch = <<>>
    /\ line = 0
    /\ items = <<>>
    /\ skipped = <<>>
    /\ rm_pc = "idle"

Init ==
    /\ ResolverIdle
    /\ StatementIdle
    /\ DebtIdle
    /\ CallersIdle
    /\ RawIdle
    /\ FcaIdle
    /\ ManyIdle
    /\ layout \in Layouts
    /\ accounts \in SeqsUpTo(AccountPool, MaxAccounts)
    /\ pc = "start"
    /\ max_layout_level = 0
    /\ i = 0
    /\ pos = 0
    /\ attributes = <<>>
    /\ calls = <<>>
    /\ err = NoError
    /\ obj = NoObj
    /\ parser = <<>>
    /\ earlier = <<>>

\* the parser object of the call before used again
NewParser_Reused(old) == old

\* line 22: cls.__parser__() makes a parser that has been handed nothing,
\* whatever the variable held before
NewParser(old) == <<>>

\* lines 21-24: max_layout_level, parser and the empty attribute map, for a
\* layout with at least one entry
Begin ==
    /\ pc = "start"
    /\ layout # <<>>
    /\ max_layout_level' = MaxLayoutLevel(layout)
    /\ parser' = NewParser(parser)
    /\ attributes' = <<>>
    /\ i' = 0
    /\ pc' = "loop"
    /\ UNCHANGED <<layout, accounts, pos, calls, err, obj, earlier, rvars, svars, dvars, cvars, wvars, fvars, bvars>>

\* the for loop left after its first entry
AfterEntry_First(n) == "finish"

\* line 26 advancing to the entry after index n, or leaving the for loop
AfterEntry(n) == IF n + 1 < Len(layout) THEN "loop" ELSE "finish"

\* the position reported 1-based
TooFewAccounts_OneBased(idx) == BalanceLayoutError("too_few", idx + 1, <<>>, <<>>)

\* line 34: the error raised on StopIteration
TooFewAccounts(idx) == BalanceLayoutError("too_few", idx, <<>>, <<>>)

\* the name compared before the code
CheckAccount_NameFirst(acc, idx, expected_code, expected_name) ==
    IF acc.name # expected_name
    THEN BalanceLayoutError("name", idx, acc.name, expected_name)
    ELSE IF acc.code # expected_code
    THEN BalanceLayoutError("code", idx, acc.code, expected_code)
    ELSE NoError

\* the name comparison of lines 39-40 left out
CheckAccount_CodeOnly(acc, idx, expected_code, expected_name) ==
    IF acc.code # expected_code
    THEN BalanceLayoutError("code", idx, acc.code, expected_code)
    ELSE NoError

\* the index of the following entry reported
CheckAccount_NextIndex(acc, idx, expected_code, expected_name) ==
    IF acc.code # expected_code
    THEN BalanceLayoutError("code", idx + 1, acc.code, expected_code)
    ELSE IF acc.name # expected_name
    THEN BalanceLayoutError("name", idx + 1, acc.name, expected_name)
    ELSE NoError

\* lines 37-40: the comparison of a fixed account with the expected entry
CheckAccount(acc, idx, expected_code, expected_name) ==
    IF acc.code # expected_code
    THEN BalanceLayoutError("code", idx, acc.code, expected_code)
    ELSE IF acc.name # expected_name
    THEN BalanceLayoutError("name", idx, acc.name, expected_name)
    ELSE NoError

\* the error dropped and the loop gone on with
Raise_Swallow(e) == UNCHANGED <<err, pc, i, attributes>>

\* the error built but not raised: the loop goes on
Raise_Continue(e) ==
    /\ err' = e
    /\ pc' = "loop"
    /\ UNCHANGED <<i, attributes>>

\* lines 34, 38, 40: raise leaves make_balance with the error
Raise(e) ==
    /\ err' = e
    /\ pc' = "error"
    /\ UNCHANGED <<i, attributes>>

\* the detail account skipped without the call
ParserParse_Skip(log, k, idx) == log

\* line 45: parser.parse(acc), k being the position of acc
ParserParse(log, k, idx) == Append(log, Call("parse", k, idx))

\* the account looked at without being taken from the iterator
NextOf_Peek(p) == p

\* line 32: next(accounts) moves the iterator past one account
NextOf(p) == p + 1

\* lines 30-45: one iteration of the while loop
PullAccount ==
    /\ pc = "loop"
    /\ IF pos >= Len(accounts)
       THEN /\ Raise(TooFewAccounts(i))
            /\ UNCHANGED <<pos, calls, parser>>
       ELSE LET acc           == accounts[pos + 1]
                expected_code == layout[i + 1][1]
                expected_name == layout[i + 1][2]
                attr          == layout[i + 1][3]
                e             == CheckAccount(acc, i, expected_code, expected_name)
            IN  /\ pos' = NextOf(pos)
                /\ IF IsCompared(acc, max_layout_level)
                   THEN /\ calls' = Append(calls, Call("compare", pos + 1, i))
                        /\ UNCHANGED parser
                        /\ IF e.kind # "none"
                           THEN Raise(e)
                           ELSE /\ attributes' = SetItem(attributes, attr, acc.quantity)
                                /\ i' = i + 1
                                /\ pc' = AfterEntry(i)
                                /\ UNCHANGED err
                   ELSE /\ calls' = ParserParse(calls, pos + 1, i)
                        /\ parser' = Append(parser, acc)
                        /\ UNCHANGED <<i, attributes, err, pc>>
    /\ UNCHANGED <<layout, accounts, max_layout_level, obj, earlier, rvars, svars, dvars, cvars, wvars, fvars, bvars>>

\* the rest of the iterator drained before finish
Finish_Drain ==
    /\ pc = "finish"
    /\ calls' = Append(calls, Call("finish", pos, i))
    /\ pos' = Len(accounts)
    /\ pc' = "construct"
    /\ UNCHANGED <<layout, accounts, max_layout_level, i, attributes, err, obj,
                   parser, earlier, rvars, svars, dvars, cvars, wvars, fvars, bvars>>

\* line 47: parser.finish(attributes), a no-op for AccountParser
Finish ==
    /\ pc = "finish"
    /\ calls' = Append(calls, Call("finish", pos, i))
    /\ pc' = "construct"
    /\ UNCHANGED <<layout, accounts, max_layout_level, i, pos, attributes, err, obj,
                   parser, earlier, rvars, svars, dvars, cvars, wvars, fvars, bvars>>

\* lines 49-51: obj = cls(**attributes); return obj
Construct ==
    /\ pc = "construct"
    /\ obj' = [made |-> TRUE, fields |-> attributes]
    /\ calls' = Append(calls, Call("cls", pos, i))
    /\ pc' = "done"
    /\ UNCHANGED <<layout, accounts, max_layout_level, i, pos, attributes, err,
                   parser, earlier, rvars, svars, dvars, cvars, wvars, fvars, bvars>>

Next == Begin \/ PullAccount \/ Finish \/ Construct

Spec == Init /\ [][Next]_vars

\* The accounts of the filings matched by consecutive calls.
CallPool ==
    { Account(<<1>>,    "Ativo Total", 1000, TRUE),
      Account(<<1, 1>>, "Caixa",       50,   TRUE),
      Account(<<1, 1>>, "Caixa",       9,    FALSE) }

\* the first of several calls of make_balance
InitCalls ==
    /\ ResolverIdle
    /\ StatementIdle
    /\ DebtIdle
    /\ CallersIdle
    /\ RawIdle
    /\ FcaIdle
    /\ ManyIdle
    /\ layout \in Layouts
    /\ accounts \in SeqsUpTo(CallPool, MaxCallAccounts)
    /\ pc = "start"
    /\ max_layout_level = 0
    /\ i = 0
    /\ pos = 0
    /\ attributes = <<>>
    /\ calls = <<>>
    /\ err = NoError
    /\ obj = NoObj
    /\ parser = <<>>
    /\ earlier = <<>>

\* make_balance called once more after a call returned or raised (another
\* layout, another side or another filing): new arguments and new locals,
\* the parser object of the finished call being left as it was
CallAgain ==
    /\ pc \in {"done", "error"}
    /\ Len(earlier) < MaxCalls - 1
    /\ earlier' = Append(earlier, parser)
    /\ layout' \in Layouts
    /\ accounts' \in SeqsUpTo(CallPool, MaxCallAccounts)
    /\ pc' = "start"
    /\ max_layout_level' = 0
    /\ i' = 0
    /\ pos' = 0
    /\ attributes' = <<>>
    /\ calls' = <<>>
    /\ err' = NoError
    /\ obj' = NoObj
    /\ UNCHANGED <<parser, rvars, svars, dvars, cvars, wvars, fvars, bvars>>

NextCalls == Begin \/ PullAccount \/ Finish \/ Construct \/ CallAgain

SpecCalls == InitCalls /\ [][NextCalls]_vars

\* make_balance called with any class: Balance itself has __layout__ = []
\* (line 14)
InitAnyLayout ==
    /\ ResolverIdle
    /\ StatementIdle
    /\ DebtIdle
    /\ CallersIdle
    /\ RawIdle
    /\ FcaIdle
    /\ ManyIdle
    /\ layout \in Layouts \cup { <<>> }
    /\ accounts \in SeqsUpTo(AccountPool, MaxAccounts)
    /\ pc = "start"
    /\ max_layout_level = 0
    /\ i = 0
    /\ pos = 0
    /\ attributes = <<>>
    /\ calls = <<>>
    /\ err = NoError
    /\ obj = NoObj
    /\ parser = <<>>
    /\ earlier = <<>>

\* line 21 for a layout without entries: max() of an empty iterable raises
\* ValueError, which leaves make_balance
BeginEmptyLayout ==
    /\ pc = "start"
    /\ layout = <<>>
    /\ err' = [kind |-> "value_error", index |-> 0, found |-> <<>>, expected |-> <<>>]
    /\ pc' = "value_error"
    /\ UNCHANGED <<layout, accounts, max_layout_level, i, pos, attributes, calls,
                   obj, parser, earlier, rvars, svars, dvars, cvars, wvars, fvars, bvars>>

NextAnyLayout == Begin \/ BeginEmptyLayout \/ PullAccount \/ Finish \/ Construct

SpecAnyLayout == InitAnyLayout /\ [][NextAnyLayout]_vars

----------------------------------------------------------------------------
\* BalanceSheet.from_accounts

BpaPool ==
    { Account(<<1>>,    "Ativo Total",      1000, TRUE),
      Account(<<1, 1>>, "Caixa",            50,   TRUE),
      Account(<<1, 1>>, "Disponibilidades", 60,   TRUE),
      Account(<<1, 1>>, "Caixa",            9,    FALSE) }

BppPool ==
    { Account(<<2>>,    "Passivo Total",      1000, TRUE),
      Account(<<2, 3>>, "Patrimonio Liquido", 400,  TRUE),
      Account(<<3>>,    "Patrimonio Liquido", 450,  TRUE),
      Account(<<2, 3>>, "Patrimonio Liquido", 8,    FALSE) }

\* The layouts of the validator classes.
ValidatorLayout(name) ==
    CASE name = "IndustrialBPAValidator" ->
             << <<(<<1>>), "Ativo Total", "total_assets">>,
                <<(<<1, 1>>), "Caixa", "cash_and_cash_equivalents">> >>
      [] name = "IndustrialBPPValidator" ->
             << <<(<<2>>), "Passivo Total", "total_liabilities">>,
                <<(<<2, 3>>), "Patrimonio Liquido", "equity">> >>
      [] name = "FinancialBPAValidator" ->
             << <<(<<1>>), "Ativo Total", "total_assets">>,
                <<(<<1, 1>>), "Disponibilidades", "cash_and_cash_equivalents">> >>
      [] name = "FinancialBPPValidator" ->
             << <<(<<2>>), "Passivo Total", "total_liabilities">>,
                <<(<<3>>), "Patrimonio Liquido", "equity">> >>
      [] name = "InsuranceBPAValidator" ->
             << <<(<<1>>), "Ativo Total", "total_assets">>,
                <<(<<1, 1>>), "Caixa", "cash_and_cash_equivalents">> >>
      [] name = "InsuranceBPPValidator" ->
             << <<(<<2>>), "Passivo Total", "total_liabilities">>,
                <<(<<3>>), "Patrimonio Liquido", "equity">> >>

\* The matcher run by a validator on a cursor over accs: p accounts
\* pulled, the entries before idx matched into attrs.
RECURSIVE MatchFrom(_, _, _, _, _)
MatchFrom(lay, accs, idx, p, attrs) ==
    IF idx >= Len(lay)
    THEN [ok |-> TRUE, attrs |-> attrs, error |-> NoError, pulled |-> p]
    ELSE IF p >= Len(accs)
    THEN [ok |-> FALSE, attrs |-> <<>>, error |-> TooFewAccounts(idx), pulled |-> p]
    ELSE LET acc == accs[p + 1]
             e   == CheckAccount(acc, idx, lay[idx + 1][1], lay[idx + 1][2])
         IN  IF ~IsCompared(acc, MaxLayoutLevel(lay))
             THEN MatchFrom(lay, accs, idx, p + 1, attrs)
             ELSE IF e.kind # "none"
             THEN [ok |-> FALSE, attrs |-> <<>>, error |-> e, pulled |-> p + 1]
             ELSE MatchFrom(lay, accs, idx + 1, p + 1,
                            SetItem(attrs, lay[idx + 1][3], acc.quantity))

\* the validator run on a cursor that stands after the first start accounts
ValidateAt(name, accs, start) == MatchFrom(ValidatorLayout(name), accs, 0, start, <<>>)

\* validator().validate(accounts.normalized(), balance_type, reference_date)
Validate(name, accs) == MatchFrom(ValidatorLayout(name), accs, 0, 0, <<>>)

\* the industrial pair listed twice
validator_pairs_Repeated ==
    << <<"IndustrialBPAValidator", "IndustrialBPPValidator">>,
       <<"IndustrialBPAValidator", "IndustrialBPPValidator">>,
       <<"InsuranceBPAValidator",  "InsuranceBPPValidator">> >>

\* the industrial and the financial pair exchanged
validator_pairs_Swapped ==
    << <<"FinancialBPAValidator",  "FinancialBPPValidator">>,
       <<"IndustrialBPAValidator", "IndustrialBPPValidator">>,
       <<"InsuranceBPAValidator",  "InsuranceBPPValidator">> >>

\* __validator_pairs__
validator_pairs ==
    << <<"IndustrialBPAValidator", "IndustrialBPPValidator">>,
       <<"FinancialBPAValidator",  "FinancialBPPValidator">>,
       <<"InsuranceBPAValidator",  "InsuranceBPPValidator">> >>

MatcherIdle ==
    /\ layout = <<>>
    /\ accounts = <<>>
    /\ pc = "idle"
    /\ max_layout_level = 0
    /\ i = 0
    /\ pos = 0
    /\ attributes = <<>>
    /\ calls = <<>>
    /\ err = NoError
    /\ obj = NoObj
    /\ parser = <<>>
    /\ earlier = <<>>

\* lines 63-65
InitSheet ==
    /\ MatcherIdle
    /\ StatementIdle
    /\ DebtIdle
    /\ CallersIdle
    /\ RawIdle
    /\ FcaIdle
    /\ ManyIdle
    /\ attempts = <<>>
    /\ bpa_consumed = 0
    /\ bpp_consumed = 0
    /\ bpa_by = ""
    /\ built_from = <<>>
    /\ bpa_accounts \in SeqsUpTo(BpaPool, MaxBpa)
    /\ bpp_accounts \in SeqsUpTo(BppPool, MaxBpp)
    /\ rpc = "bpa"
    /\ pair = 0
    /\ bpa_attrs = <<>>
    /\ bpp_attrs = <<>>
    /\ error_str = <<>>
    /\ runs = <<>>
    /\ sheet = NoObj
    /\ raised = <<>>

\* line 67 after a continue: the next pair, or the end of the for loop
NextPair(n) == IF n + 1 < Len(validator_pairs) THEN "bpa" ELSE "raise"

\* only the assets attributes passed to cls
MergeAttrs_AssetsOnly(a, b) == a

\* cls(**bpa_attrs, **bpp_attrs)
MergeAttrs(a, b) ==
    [k \in (DOMAIN a) \cup (DOMAIN b) |-> IF k \in DOMAIN a THEN a[k] ELSE b[k]]

\* one iterator per side made before the loop and handed to every attempt
AttemptStart_Shared(consumed) == consumed

\* lines 69, 75: accounts.normalized() is asked anew for every attempt, so
\* the cursor starts at the first account whatever was consumed before
AttemptStart(consumed) == 0

Attempt(validator, start, r) ==
    [validator |-> validator, start |-> start, pulled |-> r.pulled,
     ok |-> r.ok, attrs |-> r.attrs, error |-> r.error]

\* the continue of line 72 missing: the liabilities side is tried all the same
ValidateBPA_NoContinue ==
    /\ rpc = "bpa"
    /\ LET bpa_validator == validator_pairs[pair + 1][1]
           start         == AttemptStart(bpa_consumed)
           r             == ValidateAt(bpa_validator, bpa_accounts, start)
       IN  /\ runs' = Append(runs, bpa_validator)
           /\ attempts' = Append(attempts, Attempt(bpa_validator, start, r))
           /\ bpa_consumed' = r.pulled
           /\ IF r.ok
              THEN /\ bpa_attrs' = r.attrs
                   /\ bpa_by' = bpa_validator
                   /\ rpc' = "bpp"
                   /\ UNCHANGED <<error_str, pair>>
              ELSE /\ error_str' = Append(error_str, <<bpa_validator, r.error>>)
                   /\ rpc' = "bpp"
                   /\ UNCHANGED <<bpa_attrs, bpa_by, pair>>
    /\ UNCHANGED <<bpa_accounts, bpp_accounts, bpp_attrs, sheet, raised,
                   bpp_consumed, built_from, mvars, svars, dvars, cvars, wvars, fvars, bvars>>

\* lines 68-72: the assets validator of the current pair
ValidateBPA ==
    /\ rpc = "bpa"
    /\ LET bpa_validator == validator_pairs[pair + 1][1]
           start         == AttemptStart(bpa_consumed)
           r             == ValidateAt(bpa_validator, bpa_accounts, start)
       IN  /\ runs' = Append(runs, bpa_validator)
           /\ attempts' = Append(attempts, Attempt(bpa_validator, start, r))
           /\ bpa_consumed' = r.pulled
           /\ IF r.ok
              THEN /\ bpa_attrs' = r.attrs
                   /\ bpa_by' = bpa_validator
                   /\ rpc' = "bpp"
                   /\ UNCHANGED <<error_str, pair>>
              ELSE /\ error_str' = Append(error_str, <<bpa_validator, r.error>>)
                   /\ pair' = pair + 1
                   /\ rpc' = NextPair(pair)
                   /\ UNCHANGED <<bpa_attrs, bpa_by>>
    /\ UNCHANGED <<bpa_accounts, bpp_accounts, bpp_attrs, sheet, raised,
                   bpp_consumed, built_from, mvars, svars, dvars, cvars, wvars, fvars, bvars>>

\* after a liabilities failure the assets attributes are kept and the next
\* pair's liabilities validator is tried with them
ValidateBPP_KeepAssets ==
    /\ rpc = "bpp"
    /\ LET bpp_validator == validator_pairs[pair + 1][2]
           start         == AttemptStart(bpp_consumed)
           r             == ValidateAt(bpp_validator, bpp_accounts, start)
       IN  /\ runs' = Append(runs, bpp_validator)
           /\ attempts' = Append(attempts, Attempt(bpp_validator, start, r))
           /\ bpp_consumed' = r.pulled
           /\ IF r.ok
              THEN /\ bpp_attrs' = r.attrs
                   /\ IF (DOMAIN bpa_attrs) \cap (DOMAIN r.attrs) = {}
                      THEN /\ sheet' = [made |-> TRUE, fields |-> MergeAttrs(bpa_attrs, r.attrs)]
                           /\ built_from' = <<bpa_by, bpp_validator>>
                           /\ rpc' = "returned"
                      ELSE /\ rpc' = "type_error"
                           /\ UNCHANGED <<sheet, built_from>>
                   /\ UNCHANGED <<error_str, pair>>
              ELSE /\ error_str' = Append(error_str, <<bpp_validator, r.error>>)
                   /\ pair' = pair + 1
                   /\ rpc' = IF pair + 1 < Len(validator_pairs) THEN "bpp" ELSE "raise"
                   /\ UNCHANGED <<bpp_attrs, sheet, built_from>>
    /\ UNCHANGED <<bpa_accounts, bpp_accounts, bpa_attrs, raised,
                   bpa_consumed, bpa_by, mvars, svars, dvars, cvars, wvars, fvars, bvars>>

\* lines 74-80: the liabilities validator of the current pair
ValidateBPP ==
    /\ rpc = "bpp"
    /\ LET bpp_validator == validator_pairs[pair + 1][2]
           start         == AttemptStart(bpp_consumed)
           r             == ValidateAt(bpp_validator, bpp_accounts, start)
       IN  /\ runs' = Append(runs, bpp_validator)
           /\ attempts' = Append(attempts, Attempt(bpp_validator, start, r))
           /\ bpp_consumed' = r.pulled
           /\ IF r.ok
              THEN /\ bpp_attrs' = r.attrs
                   /\ IF (DOMAIN bpa_attrs) \cap (DOMAIN r.attrs) = {}
                      THEN /\ sheet' = [made |-> TRUE, fields |-> MergeAttrs(bpa_attrs, r.attrs)]
                           /\ built_from' = <<bpa_by, bpp_validator>>
                           /\ rpc' = "returned"
                      ELSE /\ rpc' = "type_error"
                           /\ UNCHANGED <<sheet, built_from>>
                   /\ UNCHANGED <<error_str, pair>>
              ELSE /\ error_str' = Append(error_str, <<bpp_validator, r.error>>)
                   /\ pair' = pair + 1
                   /\ rpc' = NextPair(pair)
                   /\ UNCHANGED <<bpp_attrs, sheet, built_from>>
    /\ UNCHANGED <<bpa_accounts, bpp_accounts, bpa_attrs, raised,
                   bpa_consumed, bpa_by, mvars, svars, dvars, cvars, wvars, fvars, bvars>>

\* only the error of the last pair raised
RaiseCombined_LastOnly ==
    /\ rpc = "raise"
    /\ raised' = <<error_str[Len(error_str)]>>
    /\ rpc' = "raised"
    /\ UNCHANGED <<bpa_accounts, bpp_accounts, pair, bpa_attrs, bpp_attrs,
                   error_str, runs, sheet, attempts, bpa_consumed, bpp_consumed,
                   bpa_by, built_from, mvars, svars, dvars, cvars, wvars, fvars, bvars>>

\* line 82: raise AccountLayoutError(f'invalid BPA or BPP: {error_str}')
RaiseCombined ==
    /\ rpc = "raise"
    /\ raised' = error_str
    /\ rpc' = "raised"
    /\ UNCHANGED <<bpa_accounts, bpp_accounts, pair, bpa_attrs, bpp_attrs,
                   error_str, runs, sheet, attempts, bpa_consumed, bpp_consumed,
                   bpa_by, built_from, mvars, svars, dvars, cvars, wvars, fvars, bvars>>

NextSheet == ValidateBPA \/ ValidateBPP \/ RaiseCombined

SpecSheet == InitSheet /\ [][NextSheet]_vars

\* One call of make_balance or one call of from_accounts, run to its end:
\* both are synchronous, so a step that can be taken is taken.
InitEither == Init \/ InitSheet

NextEither == Next \/ NextSheet

SpecTerminating == InitEither /\ [][NextEither]_vars /\ WF_vars(NextEither)

----------------------------------------------------------------------------
\* Calls of BalanceSheet.from_accounts in progress at the same time, each on
\* account sequences of its own

Callers == 1..MaxCallers

\* The filings handed to the calls, as <<bpa_accounts, bpp_accounts>>: an
\* industrial, a financial and an insurance one, one that no pair accepts,
\* an empty one, and one that both the industrial and the insurance pair
\* accept.
Filings ==
    LET ativo    == Account(<<1>>,    "Ativo Total",        1000, TRUE)
        caixa    == Account(<<1, 1>>, "Caixa",              50,   TRUE)
        dispon   == Account(<<1, 1>>, "Disponibilidades",   60,   TRUE)
        passivo  == Account(<<2>>,    "Passivo Total",      1000, TRUE)
        equity23 == Account(<<2, 3>>, "Patrimonio Liquido", 400,  TRUE)
        equity3  == Account(<<3>>,    "Patrimonio Liquido", 450,  TRUE)
    IN  { << <<ativo, caixa>>,  <<passivo, equity23>> >>,
          << <<ativo, dispon>>, <<passivo, equity3>> >>,
          << <<ativo, caixa>>,  <<passivo, equity3>> >>,
          << <<ativo, caixa>>,  <<passivo>> >>,
          << <<>>,              <<>> >>,
          << <<ativo, caixa>>,  <<passivo, equity23, equity3>> >> }

\* lines 57-65: the arguments and locals of one call as it enters the loop,
\* error_str referring to the list ref
Frame(filing, ref) ==
    [bpa_accounts |-> filing[1], bpp_accounts |-> filing[2], rpc |-> "bpa",
     pair |-> 0, bpa_attrs |-> <<>>, bpp_attrs |-> <<>>, error_str |-> ref,
     sheet |-> NoObj, raised |-> <<>>]

\* one list object, made once, that the error_str of every call refers to
NewList_Shared(p) == 1

\* line 65: error_str = [] makes a list of its own for call p
NewList(p) == p

\* the pairs held in a set, taken in an order that differs from call to call
PairOrder_Unordered(p) == IF p = 1 THEN <<1, 2, 3>> ELSE <<3, 2, 1>>

\* line 67: the for loop takes the pairs of the tuple in index order, in
\* every call
PairOrder(p) == [n \in 1..Len(validator_pairs) |-> n]

InitCallers ==
    /\ MatcherIdle
    /\ ResolverIdle
    /\ StatementIdle
    /\ DebtIdle
    /\ RawIdle
    /\ FcaIdle
    /\ ManyIdle
    /\ \E given \in [Callers -> Filings] :
          frames = [p \in Callers |-> Frame(given[p], NewList(p))]
    /\ lists = [k \in Callers |-> <<>>]

\* lines 68-72 in call p
CallerValidateBPA(p) ==
    /\ frames[p].rpc = "bpa"
    /\ LET f             == frames[p]
           bpa_validator == validator_pairs[PairOrder(p)[f.pair + 1]][1]
           r             == Validate(bpa_validator, f.bpa_accounts)
       IN  IF r.ok
           THEN /\ frames' = [frames EXCEPT ![p].bpa_attrs = r.attrs, ![p].rpc = "bpp"]
                /\ UNCHANGED lists
           ELSE /\ lists' = [lists EXCEPT ![f.error_str] = Append(@, <<bpa_validator, r.error>>)]
                /\ frames' = [frames EXCEPT ![p].pair = f.pair + 1,
                                            ![p].rpc = NextPair(f.pair)]
    /\ UNCHANGED <<mvars, rvars, svars, dvars, wvars, fvars, bvars>>

\* lines 74-80 in call p
CallerValidateBPP(p) ==
    /\ frames[p].rpc = "bpp"
    /\ LET f             == frames[p]
           bpp_validator == validator_pairs[PairOrder(p)[f.pair + 1]][2]
           r             == Validate(bpp_validator, f.bpp_accounts)
       IN  IF r.ok
           THEN /\ frames' =
                      IF (DOMAIN f.bpa_attrs) \cap (DOMAIN r.attrs) = {}
                      THEN [frames EXCEPT ![p].bpp_attrs = r.attrs,
                                          ![p].sheet = [made |-> TRUE,
                                                        fields |-> MergeAttrs(f.bpa_attrs, r.attrs)],
                                          ![p].rpc = "returned"]
                      ELSE [frames EXCEPT ![p].bpp_attrs = r.attrs,
                                          ![p].rpc = "type_error"]
                /\ UNCHANGED lists
           ELSE /\ lists' = [lists EXCEPT ![f.error_str] = Append(@, <<bpp_validator, r.error>>)]
                /\ frames' = [frames EXCEPT ![p].pair = f.pair + 1,
                                            ![p].rpc = NextPair(f.pair)]
    /\ UNCHANGED <<mvars, rvars, svars, dvars, wvars, fvars, bvars>>

\* line 82 in call p
CallerRaise(p) ==
    /\ frames[p].rpc = "raise"
    /\ frames' = [frames EXCEPT ![p].raised = lists[frames[p].error_str],
                                ![p].rpc = "raised"]
    /\ UNCHANGED <<lists, mvars, rvars, svars, dvars, wvars, fvars, bvars>>

NextCallers ==
    \E p \in Callers : CallerValidateBPA(p) \/ CallerValidateBPP(p) \/ CallerRaise(p)

SpecCallers == InitCallers /\ [][NextCallers]_vars

----------------------------------------------------------------------------
\* Statement.balance and Statement._parse_balance

\* StatementGroup
StatementGroups == {"BPA", "BPP", "DRE", "DRA", "DMPL", "DFC_MD", "DFC_MI", "DVA"}

StatementPool ==
    { Account(<<1>>,    "Ativo Total",      1000, TRUE),
      Account(<<1, 1>>, "Disponibilidades", 60,   TRUE),
      Account(<<1, 1>>, "Ativo Circulante", 300,  TRUE),
      Account(<<1, 1>>, "Circulante",       200,  TRUE),
      Account(<<3, 1>>, "Receita",          500,  TRUE),
      Account(<<1, 1>>, "Ativo Circulante", 9,    FALSE) }

\* The layouts of the balance classes of bpa and dre.
ClassLayout(cls) ==
    CASE cls = "bpa.FinancialCompanyBalance" ->
             << <<(<<1>>), "Ativo Total", "total_assets">>,
                <<(<<1, 1>>), "Disponibilidades", "cash_and_cash_equivalents">> >>
      [] cls = "bpa.IndustrialCompanyBalance" ->
             << <<(<<1>>), "Ativo Total", "total_assets">>,
                <<(<<1, 1>>), "Ativo Circulante", "current_assets">> >>
      [] cls = "bpa.InsuranceCompanyBalance" ->
             << <<(<<1>>), "Ativo Total", "total_assets">>,
                <<(<<1, 1>>), "Circulante", "current_assets">> >>
      [] cls = "dre.IndustrialCompanyBalance" ->
             << <<(<<3, 1>>), "Receita", "revenue">> >>

\* cls(accounts_iter): the balance class reads its layout off the iterator,
\* which stands after the first start accounts, and raises ValueError when
\* the accounts do not follow it
ConstructBalance(cls, accs, start) == MatchFrom(ClassLayout(cls), accs, 0, start, <<>>)

InitStatement ==
    /\ MatcherIdle
    /\ ResolverIdle
    /\ DebtIdle
    /\ CallersIdle
    /\ RawIdle
    /\ FcaIdle
    /\ ManyIdle
    /\ st_group \in StatementGroups
    /\ st_accounts \in SeqsUpTo(StatementPool, MaxStatement)
    /\ st_pc = "balance"
    /\ cls_list = <<>>
    /\ cls_idx = 0
    /\ accounts_iter = 0
    /\ st_attempts = <<>>
    /\ st_result = NoResult

\* lines 61-65: the candidate classes of the statement's group; no branch,
\* hence None, for the other groups
StatementBalance_BppAsBpa ==
    /\ st_pc = "balance"
    /\ IF st_group \in {"BPA", "BPP"}
       THEN /\ cls_list' = <<"bpa.FinancialCompanyBalance",
                             "bpa.IndustrialCompanyBalance",
                             "bpa.InsuranceCompanyBalance">>
            /\ st_pc' = "parse"
            /\ UNCHANGED st_result
       ELSE IF st_group = "DRE"
       THEN /\ cls_list' = <<"dre.IndustrialCompanyBalance">>
            /\ st_pc' = "parse"
            /\ UNCHANGED st_result
       ELSE /\ st_result' = [kind |-> "returned_none", cls |-> "", attempts |-> <<>>]
            /\ st_pc' = "done"
            /\ UNCHANGED cls_list
    /\ UNCHANGED <<st_group, st_accounts, cls_idx, accounts_iter, st_attempts,
                   mvars, rvars, dvars, cvars, wvars, fvars, bvars>>

StatementBalance ==
    /\ st_pc = "balance"
    /\ IF st_group = "BPA"
       THEN /\ cls_list' = <<"bpa.FinancialCompanyBalance",
                             "bpa.IndustrialCompanyBalance",
                             "bpa.InsuranceCompanyBalance">>
            /\ st_pc' = "parse"
            /\ UNCHANGED st_result
       ELSE IF st_group = "DRE"
       THEN /\ cls_list' = <<"dre.IndustrialCompanyBalance">>
            /\ st_pc' = "parse"
            /\ UNCHANGED st_result
       ELSE /\ st_result' = [kind |-> "returned_none", cls |-> "", attempts |-> <<>>]
            /\ st_pc' = "done"
            /\ UNCHANGED cls_list
    /\ UNCHANGED <<st_group, st_accounts, cls_idx, accounts_iter, st_attempts,
                   mvars, rvars, dvars, cvars, wvars, fvars, bvars>>

\* line 68: accounts_iter = iter(self.accounts)
ParseBalanceBegin ==
    /\ st_pc = "parse"
    /\ accounts_iter' = 0
    /\ cls_idx' = 0
    /\ st_pc' = "try"
    /\ UNCHANGED <<st_group, st_accounts, cls_list, st_attempts, st_result,
                   mvars, rvars, dvars, cvars, wvars, fvars, bvars>>

\* lines 70-74: one candidate class tried on the iterator
TryCandidate ==
    /\ st_pc = "try"
    /\ LET cls == cls_list[cls_idx + 1]
           r   == ConstructBalance(cls, st_accounts, accounts_iter)
       IN  /\ accounts_iter' = r.pulled
           /\ st_attempts' = Append(st_attempts,
                                    [cls |-> cls, start |-> accounts_iter,
                                     ok |-> r.ok, error |-> r.error])
           /\ IF r.ok
              THEN /\ st_result' = [kind |-> "balance", cls |-> cls, attempts |-> <<>>]
                   /\ st_pc' = "done"
                   /\ UNCHANGED cls_idx
              ELSE /\ cls_idx' = cls_idx + 1
                   /\ st_pc' = IF cls_idx + 1 < Len(cls_list) THEN "try" ELSE "raise"
                   /\ UNCHANGED st_result
    /\ UNCHANGED <<st_group, st_accounts, cls_list, mvars, rvars, dvars, cvars, wvars, fvars, bvars>>

\* line 77: raise ValueError('invalid/unknown balance layout')
RaiseUnknownLayout ==
    /\ st_pc = "raise"
    /\ st_result' = [kind |-> "value_error", cls |-> "", attempts |-> <<>>]
    /\ st_pc' = "raised"
    /\ UNCHANGED <<st_group, st_accounts, cls_list, cls_idx, accounts_iter,
                   st_attempts, mvars, rvars, dvars, cvars, wvars, fvars, bvars>>

NextStatement == StatementBalance \/ ParseBalanceBegin \/ TryCandidate \/ RaiseUnknownLayout

SpecStatement == InitStatement /\ [][NextStatement]_vars

----------------------------------------------------------------------------
\* BalanceSheet.gross_debt and BalanceSheet.net_debt

\* Optional[int] values of the two loan fields, int values of the cash field
LoanValues == {None, Some(100), Some(-400), Some(-100), Some(0)}
CashValues == {Some(50), Some(0)}

\* abs
Abs(x) == IF x < 0 THEN 0 - x ELSE x

\* the sum returned without abs
gross_debt_NoAbs(self) ==
    IF self.current_loans_and_financing.some /\ self.noncurrent_loans_and_financing.some
    THEN Some(self.current_loans_and_financing.v + self.noncurrent_loans_and_financing.v)
    ELSE None

\* lines 43-47: the body of gross_debt; None + int raises TypeError
gross_debt(self) ==
    IF self.current_loans_and_financing.some /\ self.noncurrent_loans_and_financing.some
    THEN Some(Abs(self.current_loans_and_financing.v + self.noncurrent_loans_and_financing.v))
    ELSE None

\* an undefined gross debt counted as zero
net_debt_NoneAsZero(self, g) ==
    IF self.cash_and_cash_equivalents.some
    THEN Some((IF g.some THEN g.v ELSE 0) - self.cash_and_cash_equivalents.v)
    ELSE None

\* lines 50-54: the body of net_debt, g being the value of self.gross_debt;
\* None - int raises TypeError
net_debt(self, g) ==
    IF g.some /\ self.cash_and_cash_equivalents.some
    THEN Some(g.v - self.cash_and_cash_equivalents.v)
    ELSE None

\* a plain property: nothing is looked up in the instance's __dict__
IsCached_Never(d, name) == FALSE

\* lines 42, 49: functools.cached_property looks the name up in __dict__
IsCached(d, name) == name \in DOMAIN d

InitDebt ==
    /\ MatcherIdle
    /\ ResolverIdle
    /\ StatementIdle
    /\ CallersIdle
    /\ RawIdle
    /\ FcaIdle
    /\ ManyIdle
    /\ bs \in { Fields(cl, ncl, cash) : cl \in LoanValues, ncl \in LoanValues,
                                        cash \in CashValues }
    /\ bs_dict = <<>>
    /\ evals = [gross_debt |-> 0, net_debt |-> 0]
    /\ reads = <<>>

\* lines 42-47: one read of sheet.gross_debt
ReadGrossDebt ==
    /\ Len(reads) < MaxReads
    /\ LET cached == IsCached(bs_dict, "gross_debt")
           value  == IF cached THEN bs_dict["gross_debt"] ELSE gross_debt(bs)
       IN  /\ bs_dict' = IF cached THEN bs_dict ELSE SetItem(bs_dict, "gross_debt", value)
           /\ evals' = IF cached THEN evals
                       ELSE [evals EXCEPT !.gross_debt = @ + 1]
           /\ reads' = Append(reads, [attr |-> "gross_debt", value |-> value])
    /\ UNCHANGED <<bs, mvars, rvars, svars, cvars, wvars, fvars, bvars>>

\* lines 49-54: one read of sheet.net_debt, which reads self.gross_debt
ReadNetDebt ==
    /\ Len(reads) < MaxReads
    /\ LET cached  == IsCached(bs_dict, "net_debt")
           gcached == IsCached(bs_dict, "gross_debt")
           g       == IF gcached THEN bs_dict["gross_debt"] ELSE gross_debt(bs)
           inner   == IF gcached THEN bs_dict ELSE SetItem(bs_dict, "gross_debt", g)
           value   == IF cached THEN bs_dict["net_debt"] ELSE net_debt(bs, g)
       IN  /\ bs_dict' = IF cached THEN bs_dict ELSE SetItem(inner, "net_debt", value)
           /\ evals' = IF cached THEN evals
                       ELSE [gross_debt |-> IF gcached THEN evals.gross_debt
                                            ELSE evals.gross_debt + 1,
                             net_debt   |-> evals.net_debt + 1]
           /\ reads' = Append(reads, [attr |-> "net_debt", value |-> value])
    /\ UNCHANGED <<bs, mvars, rvars, svars, cvars, wvars, fvars, bvars>>

NextDebt == ReadGrossDebt \/ ReadNetDebt

SpecDebt == InitDebt /\ [][NextDebt]_vars

\* line 20: the dataclass is not frozen, so a field of a BalanceSheet can be
\* assigned after construction; the assignment leaves __dict__'s cached
\* properties alone
SetField ==
    /\ \/ \E v \in LoanValues : bs' = [bs EXCEPT !.current_loans_and_financing = v]
       \/ \E v \in LoanValues : bs' = [bs EXCEPT !.noncurrent_loans_and_financing = v]
       \/ \E v \in CashValues : bs' = [bs EXCEPT !.cash_and_cash_equivalents = v]
    /\ bs' # bs
    /\ UNCHANGED <<bs_dict, evals, reads, mvars, rvars, svars, cvars, wvars, fvars, bvars>>

NextMutable == ReadGrossDebt \/ ReadNetDebt \/ SetField

SpecMutable == InitDebt /\ [][NextMutable]_vars

----------------------------------------------------------------------------
\* dfp.statement: _read_raw_statements and reader

\* A row of the CSV file as csv.DictReader hands it over, with the columns the
\* two functions read that decide what happens to the row: the three columns
\* of the statement key, three of the columns copied into a new statement and
\* two of the four account columns. Every value is the text of the cell.
Row(cvm, refer, fim, versao, grupo, ordem, conta, valor) ==
    [CD_CVM |-> cvm, DT_REFER |-> refer, DT_FIM_EXERC |-> fim,
     VERSAO |-> versao, GRUPO_DFP |-> grupo, ORDEM_EXERC |-> ordem,
     CD_CONTA |-> conta, VL_CONTA |-> valor]

BPA_con == "DF Consolidado - Balanco Patrimonial Ativo"
BPP_con == "DF Consolidado - Balanco Patrimonial Passivo"

\* Rows of two companies: three well-formed rows of one filing, a row with the
\* same key that belongs to another group, version and fiscal-year order, and
\* rows whose quantity, version or group cannot be converted.
RowPool ==
    { Row("1", "2020-12-31", "2020-12-31", "1", BPA_con, "ULTIMO", "1", "10"),
      Row("1", "2020-12-31", "2020-12-31", "1", BPA_con, "ULTIMO", "1.01", "20"),
      Row("1", "2020-12-31", "2020-12-31", "2", BPP_con, "PENULTIMO", "2", "30"),
      Row("1", "2020-12-31", "2020-12-31", "1", BPA_con, "ULTIMO", "1.02", "abc"),
      Row("2", "2020-12-31", "2020-12-31", "1", BPA_con, "ULTIMO", "1", "10"),
      Row("2", "2020-12-31", "2020-12-31", "x", BPA_con, "ULTIMO", "1", "10"),
      Row("2", "2020-12-31", "2020-12-31", "1", "DF Consolidado", "ULTIMO", "1", "10") }

\* The header of the file: complete, or lacking one column.
MissingColumns == {"", "CD_CVM", "VERSAO", "CD_CONTA"}

\* line 137: csv.DictReader gives every row the keys of the header, so a
\* column the header lacks is in no row
Visible(row, missing) ==
    IF missing = "" THEN row ELSE [row EXCEPT ![missing] = ""]

\* lines 143-144: row == prev_row, where prev_row starts as '' and is a row
\* afterwards
IsDuplicate_KeyOnly(row, prev) ==
    /\ prev # <<>>
    /\ row.CD_CVM = prev[1].CD_CVM
    /\ row.DT_REFER = prev[1].DT_REFER
    /\ row.DT_FIM_EXERC = prev[1].DT_FIM_EXERC

IsDuplicate(row, prev) == prev = <<row>>

\* line 156
StmtKey(row) == row.CD_CVM \o row.DT_REFER \o row.DT_FIM_EXERC

\* lines 158-159: the place of stmts[stmt_key] in the dict, 0 for KeyError
StmtAt(d, key) ==
    IF \E n \in 1..Len(d) : d[n].key = key
    THEN CHOOSE n \in 1..Len(d) : d[n].key = key
    ELSE 0

\* lines 161-181: the statement made from the row that first has its key;
\* made_by is the number of that row in the file
NewRawStatement(row, n) ==
    [key |-> StmtKey(row), version |-> row.VERSAO, group |-> row.GRUPO_DFP,
     fiscal_year_order |-> row.ORDEM_EXERC, accounts |-> <<>>, made_by |-> n]

\* line 183: list.append; src is the number of the row in the file
AddAccount_Front(accs, a) == <<a>> \o accs

AddAccount(accs, a) == Append(accs, a)

RawAccount(row, n) == [code |-> row.CD_CONTA, quantity |-> row.VL_CONTA, src |-> n]

\* lines 158-181: stmts after the lookup, a new statement going to the end of
\* the dict
WithStatement(d, row, n) ==
    IF StmtAt(d, StmtKey(row)) = 0 THEN Append(d, NewRawStatement(row, n)) ELSE d

\* line 183
WithAccount(d, row, n) ==
    LET at == StmtAt(d, StmtKey(row))
    IN  [d EXCEPT ![at].accounts = AddAccount(@, RawAccount(row, n))]

InitReader ==
    /\ MatcherIdle
    /\ ResolverIdle
    /\ StatementIdle
    /\ DebtIdle
    /\ CallersIdle
    /\ FcaIdle
    /\ ManyIdle
    /\ csv_missing \in MissingColumns
    /\ csv_rows \in SeqsUpTo(RowPool, MaxRows)
    /\ row_index = 0
    /\ prev_row = <<>>
    /\ stmts = <<>>
    /\ fates = <<>>
    /\ raw_pc = "rows"
    /\ stmt_index = 0
    /\ yielded = <<>>

\* lines 141-183: one turn of the loop over the rows
ReadRow ==
    /\ raw_pc = "rows"
    /\ row_index < Len(csv_rows)
    /\ LET n   == row_index + 1
           row == Visible(csv_rows[n], csv_missing)
       IN  /\ row_index' = n
           /\ IF IsDuplicate(row, prev_row)
              THEN /\ fates' = Append(fates, "duplicate")
                   /\ UNCHANGED <<prev_row, stmts, raw_pc>>
              ELSE /\ prev_row' = <<row>>
                   /\ IF csv_missing \in {"CD_CVM"}
                      THEN \* lines 148-154
                           /\ fates' = Append(fates, "no_key")
                           /\ UNCHANGED <<stmts, raw_pc>>
                      ELSE IF StmtAt(stmts, StmtKey(row)) = 0 /\ csv_missing \in {"VERSAO"}
                      THEN \* lines 163-174
                           /\ fates' = Append(fates, "no_field")
                           /\ UNCHANGED <<stmts, raw_pc>>
                      ELSE IF csv_missing \in {"CD_CONTA"}
                      THEN \* line 183, the KeyError leaving the function
                           /\ fates' = Append(fates, "raised")
                           /\ stmts' = WithStatement(stmts, row, n)
                           /\ raw_pc' = "key_error"
                      ELSE /\ fates' = Append(fates, "appended")
                           /\ stmts' = WithAccount(WithStatement(stmts, row, n), row, n)
                           /\ UNCHANGED raw_pc
    /\ UNCHANGED <<csv_missing, csv_rows, stmt_index, yielded,
                   mvars, rvars, svars, dvars, cvars, fvars, bvars>>

\* line 185
ReturnStatements ==
    /\ raw_pc = "rows"
    /\ row_index = Len(csv_rows)
    /\ raw_pc' = "returned"
    /\ UNCHANGED <<csv_missing, csv_rows, row_index, prev_row, stmts, fates,
                   stmt_index, yielded,
                   mvars, rvars, svars, dvars, cvars, fvars, bvars>>

\* line 193: int() of the texts found in the version column
IsInt(s) == s \in {"1", "2"}

IntOf(s) == IF s = "1" THEN 1 ELSE 2

\* lines 108-125, the names without their accents
stmt_groups_by_name ==
    << <<"DF Consolidado - Balanco Patrimonial Ativo", "BPA", TRUE>>,
       <<"DF Individual - Balanco Patrimonial Ativo", "BPA", FALSE>>,
       <<"DF Consolidado - Balanco Patrimonial Passivo", "BPP", TRUE>>,
       <<"DF Individual - Balanco Patrimonial Passivo", "BPP", FALSE>>,
       <<"DF Consolidado - Demonstracao do Resultado", "DRE", TRUE>>,
       <<"DF Individual - Demonstracao do Resultado", "DRE", FALSE>>,
       <<"DF Consolidado - Demonstracao de Resultado Abrangente", "DRA", TRUE>>,
       <<"DF Individual - Demonstracao de Resultado Abrangente", "DRA", FALSE>>,
       <<"DF Consolidado - Demonstracao do Fluxo de Caixa (Metodo Direto)", "DFC_MD", TRUE>>,
       <<"DF Individual - Demonstracao do Fluxo de Caixa (Metodo Direto)", "DFC_MD", FALSE>>,
       <<"DF Consolidado - Demonstracao do Fluxo de Caixa (Metodo Indireto)", "DFC_MI", TRUE>>,
       <<"DF Individual - Demonstracao do Fluxo de Caixa (Metodo Indireto)", "DFC_MI", FALSE>>,
       <<"DF Consolidado - Demonstracao das Mutacoes do Patrimonio Liquido", "DMPL", TRUE>>,
       <<"DF Individual - Demonstracao das Mutacoes do Patrimonio Liquido", "DMPL", FALSE>>,
       <<"DF Consolidado - Demonstracao de Valor Adicionado", "DVA", TRUE>>,
       <<"DF Individual - Demonstracao de Valor Adicionado", "DVA", FALSE>> >>

\* lines 127-131: the entry of the name, <<>> standing for the ValueError
read_statement_group(group) ==
    IF \E n \in 1..Len(stmt_groups_by_name) : stmt_groups_by_name[n][1] = group
    THEN LET n == CHOOSE n \in 1..Len(stmt_groups_by_name) :
                      stmt_groups_by_name[n][1] = group
         IN  <<stmt_groups_by_name[n][2], stmt_groups_by_name[n][3]>>
    ELSE <<>>

\* lines 45-47, the values without their accents
FiscalYearOrder == {"ULTIMO", "PENULTIMO"}

\* line 210: float() of the texts found in the quantity column
IsFloat(s) == s \in {"10", "20", "30"}

FloatOf(s) == IF s = "10" THEN 10 ELSE IF s = "20" THEN 20 ELSE 30

\* line 192: a Statement with no attribute assigned; assigned names the
\* attributes the object has, warned tells whether lines 215-221 ran for it,
\* made_by is the number of the row that made the raw statement it is read
\* from
NewStatement(raw) ==
    [assigned |-> {}, version |-> 0, group |-> "", consolidated |-> FALSE,
     fiscal_year_order |-> "", accounts |-> <<>>, warned |-> FALSE,
     made_by |-> raw.made_by]

\* lines 206-213: the accounts appended before the first quantity float()
\* rejects, and whether there is such a quantity
RECURSIVE ReadAccounts(_, _)
ReadAccounts(raw_accounts, done) ==
    IF raw_accounts = <<>> THEN [accounts |-> done, failed |-> FALSE]
    ELSE IF ~IsFloat(Head(raw_accounts).quantity)
    THEN [accounts |-> done, failed |-> TRUE]
    ELSE ReadAccounts(Tail(raw_accounts),
                      Append(done, [code     |-> Head(raw_accounts).code,
                                    quantity |-> FloatOf(Head(raw_accounts).quantity),
                                    src      |-> Head(raw_accounts).src]))

\* lines 191-221: the object r refers to when the try statement is left, by
\* its end or by a ValueError. The company, the currency and the dates
\* (lines 195-202) are copied or converted between the group and the
\* fiscal-year order and are left out.
ReadStatement(raw) ==
    IF ~IsInt(raw.version)
    THEN [NewStatement(raw) EXCEPT !.warned = TRUE]
    ELSE
    LET r1 == [NewStatement(raw) EXCEPT !.assigned = {"version"},
                                        !.version = IntOf(raw.version)]
        g  == read_statement_group(raw.group)
    IN  IF g = <<>>
        THEN [r1 EXCEPT !.warned = TRUE]
        ELSE
        LET r2 == [r1 EXCEPT !.assigned = @ \cup {"group", "consolidated"},
                             !.group = g[1], !.consolidated = g[2]]
        IN  IF raw.fiscal_year_order \notin FiscalYearOrder
            THEN [r2 EXCEPT !.warned = TRUE]
            ELSE
            LET read == ReadAccounts(raw.accounts, <<>>)
            IN  [r2 EXCEPT !.assigned = @ \cup {"fiscal_year_order", "accounts"},
                           !.fiscal_year_order = raw.fiscal_year_order,
                           !.accounts = read.accounts,
                           !.warned = read.failed]

\* line 223, outside the try statement
Yield_SkipFailed(out, r) == IF r.warned THEN out ELSE Append(out, r)

Yield(out, r) == Append(out, r)

\* lines 190-223: one turn of reader's loop over the raw statements
YieldStatement ==
    /\ raw_pc = "returned"
    /\ stmt_index < Len(stmts)
    /\ stmt_index' = stmt_index + 1
    /\ yielded' = Yield(yielded, ReadStatement(stmts[stmt_index + 1]))
    /\ UNCHANGED <<csv_missing, csv_rows, row_index, prev_row, stmts, fates,
                   raw_pc,
                   mvars, rvars, svars, dvars, cvars, fvars, bvars>>

NextReader == ReadRow \/ ReturnStatements \/ YieldStatement

SpecReader == InitReader /\ [][NextReader]_vars

----------------------------------------------------------------------------
\* csvio.fca: _reader

\* The ids of the documents of the head file.
DocumentIds == {7, 9}

\* lines 1054-1116: the locals the eight body reads are assigned to, in the
\* order of the try statements
BodyReaders ==
    <<"addresses", "trading_admissions", "issuer_company", "securities",
      "auditors", "bookkeeping_agents", "ird", "shareholder_dept">>

BodyReaderSet == { BodyReaders[n] : n \in 1..Len(BodyReaders) }

IndexOf(reader) == CHOOSE n \in 1..Len(BodyReaders) : BodyReaders[n] = reader

\* What a call of read(head.id) on a body reader does: it returns, or raises
\* one of the three exceptions _reader handles. Which of them depends on the
\* batches the body file holds.
ReadOutcomes == {"ok", "UnexpectedBatch", "StopIteration", "BadDocument"}

\* The values the locals take: a list, None, an IssuerCompany; a local not
\* assigned in this turn of the loop
ListOf(elems) == [kind |-> "list", items |-> elems]

NoneValue == [kind |-> "None", items |-> <<>>]

Unbound == [kind |-> "unbound", items |-> <<>>]

\* lines 809-828: the IssuerCompany holds the lists handed to read
IssuerCompany(id, trading_admissions, addresses) ==
    [kind |-> "IssuerCompany",
     items |-> <<[id |-> id, trading_admissions |-> trading_admissions,
                  addresses |-> addresses]>>]

\* lines 1055, 1063, 1071, 1079, 1087, 1095, 1103, 1111: what a read that
\* returns hands back for the document
Returned(reader, id, locals) ==
    IF reader = "issuer_company"
    THEN IssuerCompany(id, locals["trading_admissions"], locals["addresses"])
    ELSE ListOf(<<[of |-> reader, id |-> id]>>)

\* the except clauses of lines 1056-1116
FailedPart_AlwaysList(reader) == ListOf(<<>>)

FailedPart(reader) ==
    IF reader = "issuer_company" THEN NoneValue ELSE ListOf(<<>>)

\* where _reader goes after the try statement of a body reader
After_BodyStopEnds(reader, outcome) ==
    IF outcome = "StopIteration" THEN "done"
    ELSE IF IndexOf(reader) = Len(BodyReaders) THEN "yield"
    ELSE BodyReaders[IndexOf(reader) + 1]

After(reader, outcome) ==
    IF IndexOf(reader) = Len(BodyReaders) THEN "yield"
    ELSE BodyReaders[IndexOf(reader) + 1]

\* lines 1118-1134, the head's fields other than id left out
MakeFCA(id, locals) ==
    [id                            |-> id,
     issuer_company                |-> locals["issuer_company"],
     securities                    |-> locals["securities"],
     auditors                      |-> locals["auditors"],
     bookkeeping_agents            |-> locals["bookkeeping_agents"],
     investor_relations_department |-> locals["ird"],
     shareholder_department        |-> locals["shareholder_dept"]]

InitFca ==
    /\ MatcherIdle
    /\ ResolverIdle
    /\ StatementIdle
    /\ DebtIdle
    /\ CallersIdle
    /\ RawIdle
    /\ ManyIdle
    /\ heads \in SeqsUpTo(DocumentIds, MaxDocuments)
    /\ head_idx = 0
    /\ f_pc = "head"
    /\ parts = [r \in BodyReaderSet |-> Unbound]
    /\ body_reads = <<>>
    /\ printed = <<>>
    /\ failures = 0
    /\ fcas = <<>>
    /\ last_fca = <<>>

\* lines 1048-1052: head_reader.read() hands over the next document of the
\* head file or raises StopIteration. Every local of the loop body is
\* assigned again before line 1118 reads it, so the values of the turn
\* before are dropped here.
ReadHead ==
    /\ f_pc = "head"
    /\ IF head_idx < Len(heads)
       THEN /\ head_idx' = head_idx + 1
            /\ f_pc' = BodyReaders[1]
            /\ parts' = [r \in BodyReaderSet |-> Unbound]
            /\ body_reads' = <<>>
            /\ printed' = <<>>
            /\ last_fca' = <<>>
       ELSE /\ f_pc' = "done"
            /\ UNCHANGED <<head_idx, parts, body_reads, printed, last_fca>>
    /\ UNCHANGED <<heads, failures, fcas,
                   mvars, rvars, svars, dvars, cvars, wvars, bvars>>

\* lines 1054-1116: one of the eight try statements
ReadBody(outcome) ==
    /\ f_pc \in BodyReaderSet
    /\ outcome = "ok" \/ failures < MaxFailures
    /\ LET reader == f_pc
           id     == heads[head_idx]
       IN  /\ parts' = [parts EXCEPT ![reader] =
                           IF outcome = "ok" THEN Returned(reader, id, parts)
                           ELSE FailedPart(reader)]
           /\ body_reads' = Append(body_reads,
                                   [reader |-> reader, id |-> id, outcome |-> outcome])
           /\ printed' = IF outcome = "BadDocument" THEN Append(printed, reader)
                         ELSE printed
           /\ failures' = IF outcome = "ok" THEN failures ELSE failures + 1
           /\ f_pc' = After(reader, outcome)
    /\ UNCHANGED <<heads, head_idx, fcas, last_fca,
                   mvars, rvars, svars, dvars, cvars, wvars, bvars>>

\* lines 1118-1134
YieldFCA ==
    /\ f_pc = "yield"
    /\ fcas' = Append(fcas, heads[head_idx])
    /\ last_fca' = <<MakeFCA(heads[head_idx], parts)>>
    /\ f_pc' = "head"
    /\ UNCHANGED <<heads, head_idx, parts, body_reads, printed, failures,
                   mvars, rvars, svars, dvars, cvars, wvars, bvars>>

NextFca ==
    \/ ReadHead
    \/ \E outcome \in ReadOutcomes : ReadBody(outcome)
    \/ YieldFCA

SpecFca == InitFca /\ [][NextFca]_vars

----------------------------------------------------------------------------
\* csvio.fca: CommonReader.read_many

\* A row of the batch: what read_function makes of it, or that it raises
\* BadDocument.
BatchRows ==
    { [bad |-> FALSE, item |-> "a"], [bad |-> FALSE, item |-> "b"],
      [bad |-> TRUE, item |-> ""] }

InitMany ==
    /\ MatcherIdle
    /\ ResolverIdle
    /\ StatementIdle
    /\ DebtIdle
    /\ CallersIdle
    /\ RawIdle
    /\ FcaIdle
    /\ batch \in SeqsUpTo(BatchRows, MaxBatch)
    /\ line = 0
    /\ items = <<>>
    /\ skipped = <<>>
    /\ rm_pc = "rows"

\* lines 443-445: items after read_function raised BadDocument
OnBadDocument_AppendNone(list) == Append(list, "")

OnBadDocument(list) == list

\* lines 439-447: one turn of the loop, line counting the rows from 1
ReadOne ==
    /\ rm_pc = "rows"
    /\ line < Len(batch)
    /\ line' = line + 1
    /\ IF batch[line + 1].bad
       THEN /\ skipped' = Append(skipped, line + 1)
            /\ items' = OnBadDocument(items)
       ELSE /\ items' = Append(items, batch[line + 1].item)
            /\ UNCHANGED skipped
    /\ UNCHANGED <<batch, rm_pc, mvars, rvars, svars, dvars, cvars, wvars, fvars>>

\* line 449
ReturnItems ==
    /\ rm_pc = "rows"
    /\ line = Len(batch)
    /\ rm_pc' = "returned"
    /\ UNCHANGED <<batch, line, items, skipped,
                   mvars, rvars, svars, dvars, cvars, wvars, fvars>>

NextMany == ReadOne \/ ReturnItems

SpecMany == InitMany /\ [][NextMany]_vars

----------------------------------------------------------------------------
\* Vocabulary of the properties of make_balance, stated on the arguments
\* (layout, accounts) alone.

\* The deepest level among the layout's expected codes.
SkeletonDepth ==
    CHOOSE m \in { Len(layout[n][1]) : n \in 1..Len(layout) } :
        \A n \in 1..Len(layout) : Len(layout[n][1]) <= m

\* The account at position k is a detail account.
DetailAt(k) == ~accounts[k].is_fixed \/ Len(accounts[k].code) > SkeletonDepth

Positions == [k \in 1..Len(accounts) |-> k]

\* Positions of the skeleton candidates, in sequence order.
SkeletonPositions == SelectSeq(Positions, LAMBDA k : ~DetailAt(k))

\* Positions of the detail accounts, in sequence order.
DetailPositions == SelectSeq(Positions, LAMBDA k : DetailAt(k))

\* The n-th skeleton candidate is the account of the n-th layout entry.
MatchesEntry(n) ==
    /\ accounts[SkeletonPositions[n]].code = layout[n][1]
    /\ accounts[SkeletonPositions[n]].name = layout[n][2]

\* The skeleton candidates are exactly the layout's entries, in order.
FollowsSkeleton ==
    /\ Len(SkeletonPositions) = Len(layout)
    /\ \A n \in 1..Len(layout) : MatchesEntry(n)

LayoutKeys == { layout[n][3] : n \in 1..Len(layout) }

\* The attribute map holds, under each entry's key, the quantity of the n-th
\* skeleton candidate.
HoldsMatchedQuantities(map) ==
    /\ DOMAIN map = LayoutKeys
    /\ \A n \in 1..Len(layout) :
          map[layout[n][3]] = accounts[SkeletonPositions[n]].quantity

Terminated == ~ENABLED Next

\* Positions handed to parser.parse, in call order.
ParsedPositions ==
    LET parses == SelectSeq(calls, LAMBDA c : c.op = "parse")
    IN  [n \in 1..Len(parses) |-> parses[n].k]

CallCount(op) == Cardinality({ n \in 1..Len(calls) : calls[n].op = op })

\* C1: a sequence that follows the layout's skeleton, with any detail
\* accounts interleaved, is matched: the run never fails, ends with the
\* object built, and the attribute map has exactly the layout's keys, each
\* with the quantity of the account matched to its entry.
C1_ConformingSequenceMatches ==
    FollowsSkeleton =>
        /\ pc # "error"
        /\ Terminated => pc = "done"
        /\ pc = "done" => obj.made /\ HoldsMatchedQuantities(obj.fields)

C1_Witness ==
    /\ pc = "done"
    /\ FollowsSkeleton
    /\ Len(layout) >= 2
    /\ \E k \in 1..(SkeletonPositions[Len(layout)] - 1) : DetailAt(k)

\* C2: a pulled account is handed to parser.parse, and neither compared nor
\* stored, exactly when it is not fixed or lies deeper than the layout; every
\* other pulled account is compared with the entry that is current, i.e. the
\* one after the entries matched so far.
C2_DetailIffNotFixedOrDeeper ==
    pc # "start" =>
        \A k \in 1..pos :
            LET parsed   == \E n \in 1..Len(calls) : calls[n].op = "parse" /\ calls[n].k = k
                compared == \E n \in 1..Len(calls) : calls[n].op = "compare" /\ calls[n].k = k
            IN  /\ parsed <=> DetailAt(k)
                /\ compared <=> ~DetailAt(k)
                /\ \A n \in 1..Len(calls) :
                      (calls[n].op = "compare" /\ calls[n].k = k) =>
                          calls[n].idx = Cardinality({ j \in 1..(k - 1) : ~DetailAt(j) })
                /\ DetailAt(k) =>
                      \A key \in DOMAIN attributes : attributes[key] # accounts[k].quantity

C2_Witness ==
    /\ pc = "done"
    /\ \E k \in 1..pos : DetailAt(k) /\ accounts[k].is_fixed
    /\ \E k \in 1..pos : ~accounts[k].is_fixed
    /\ \E k \in 1..pos : ~DetailAt(k)

\* C3: a pulled skeleton candidate whose code differs from the expected code
\* of the entry being matched ends the run with a code-mismatch error naming
\* that entry's index, the found and the expected code; with an equal code
\* and a different name, with a name-mismatch error naming the index, the
\* found and the expected name.
C3_MismatchIsReported ==
    pc # "start" =>
        \A k \in 1..pos :
            ~DetailAt(k) =>
                LET r   == Cardinality({ j \in 1..(k - 1) : ~DetailAt(j) })
                    acc == accounts[k]
                IN  /\ r < Len(layout)
                    /\ acc.code # layout[r + 1][1] =>
                          /\ pc = "error"
                          /\ err = [kind |-> "code", index |-> r,
                                    found |-> acc.code, expected |-> layout[r + 1][1]]
                    /\ (acc.code = layout[r + 1][1] /\ acc.name # layout[r + 1][2]) =>
                          /\ pc = "error"
                          /\ err = [kind |-> "name", index |-> r,
                                    found |-> acc.name, expected |-> layout[r + 1][2]]

C3_Witness ==
    /\ pc = "error"
    /\ err.kind = "name"
    /\ err.index >= 1
    /\ accounts[pos].code = layout[err.index + 1][1]
    /\ accounts[pos].name # layout[err.index + 1][2]

\* The skeleton candidates are the accounts of the first m layout entries
\* and nothing else, so the sequence runs out while entry m is searched.
RunsOutAt(m) ==
    /\ m < Len(layout)
    /\ Len(SkeletonPositions) = m
    /\ \A n \in 1..m : MatchesEntry(n)

\* C4: when the accounts run out while the account of entry i is searched,
\* the run ends with a too-few-accounts error at position i, entries 0..i-1
\* being matched; an empty sequence fails at position 0.
C4_ExhaustionReportsPosition ==
    /\ \A m \in 0..(Len(layout) - 1) :
          RunsOutAt(m) =>
              /\ pc # "done"
              /\ Terminated =>
                    /\ pc = "error"
                    /\ err = [kind |-> "too_few", index |-> m,
                              found |-> <<>>, expected |-> <<>>]
                    /\ DOMAIN attributes = { layout[n][3] : n \in 1..m }
    /\ (pc = "error" /\ err.kind = "too_few") =>
          /\ pos = Len(accounts)
          /\ err.index = i
          /\ RunsOutAt(i)
    /\ (accounts = <<>> /\ Terminated) => (pc = "error" /\ err.index = 0)

C4_Witness ==
    /\ pc = "error"
    /\ err.kind = "too_few"
    /\ err.index >= 1
    /\ \E k \in 1..Len(accounts) : DetailAt(k)

\* The layout's (code, name) pairs without the entry of index r (0-based).
SkeletonWithout(r) ==
    [n \in 1..(Len(layout) - 1) |->
        IF n <= r THEN <<layout[n][1], layout[n][2]>>
        ELSE <<layout[n + 1][1], layout[n + 1][2]>>]

\* The accounts are a conforming sequence from which the skeleton account of
\* entry r was removed.
MissingEntry(r) ==
    [n \in 1..Len(SkeletonPositions) |->
        <<accounts[SkeletonPositions[n]].code, accounts[SkeletonPositions[n]].name>>]
    = SkeletonWithout(r)

\* C5 as stated: with the skeleton account of any entry r removed, the run
\* ends with a too-few-accounts error at position r.
C5_MissingEntryIsTooFew ==
    \A r \in 0..(Len(layout) - 1) :
        (MissingEntry(r) /\ Terminated) =>
            /\ pc = "error"
            /\ err = [kind |-> "too_few", index |-> r, found |-> <<>>, expected |-> <<>>]

\* C5 amended: with the skeleton account of entry r removed, the run ends
\* with a layout error at position r: too-few-accounts when r is the last
\* entry, otherwise the code mismatch between the account of entry r+1 and
\* entry r (the layout's codes being pairwise distinct).
C5_MissingEntryFailsAtItsIndex ==
    \A r \in 0..(Len(layout) - 1) :
        (MissingEntry(r) /\ Terminated) =>
            /\ pc = "error"
            /\ IF r = Len(layout) - 1
               THEN err = [kind |-> "too_few", index |-> r,
                           found |-> <<>>, expected |-> <<>>]
               ELSE err = [kind |-> "code", index |-> r,
                           found |-> layout[r + 2][1], expected |-> layout[r + 1][1]]

C5_Witness ==
    /\ pc = "error"
    /\ Len(layout) = 3
    /\ MissingEntry(1)
    /\ \E k \in 1..Len(accounts) : DetailAt(k)

\* C6 as stated: in a successful run parser.parse is called exactly once for
\* every detail account of the sequence, those after the last matched
\* account included, in sequence order.
C6_EveryDetailIsParsed ==
    pc = "done" => ParsedPositions = DetailPositions

\* C6 amended: in a successful run parser.parse is called exactly once, in
\* sequence order, for every detail account that precedes the account
\* matched to the last layout entry; the detail accounts after it are not
\* parsed.
C6_DetailsBeforeLastMatchAreParsed ==
    pc = "done" =>
        ParsedPositions =
            SelectSeq(DetailPositions, LAMBDA k : k < SkeletonPositions[Len(layout)])

C6_Witness ==
    /\ pc = "done"
    /\ Len(ParsedPositions) >= 2
    /\ \E k \in 1..Len(accounts) : DetailAt(k) /\ k > SkeletonPositions[Len(layout)]

\* C7: parser.finish is called exactly once in a successful run, after every
\* layout entry was matched and after every parse call, before the object is
\* constructed; it is never called in a run that ends in a layout error.
C7_FinishOnceAfterMatching ==
    /\ pc = "done" => CallCount("finish") = 1
    /\ pc \in {"start", "loop", "finish", "error"} => CallCount("finish") = 0
    /\ CallCount("finish") <= 1
    /\ obj.made => CallCount("finish") = 1
    /\ \A n \in 1..Len(calls) :
          calls[n].op = "finish" =>
              /\ Cardinality({ m \in 1..(n - 1) : calls[m].op = "compare" }) = Len(layout)
              /\ DOMAIN attributes = LayoutKeys
              /\ \A m \in 1..Len(calls) : calls[m].op = "parse" => m < n
              /\ \A m \in 1..Len(calls) : calls[m].op = "cls" => m > n

C7_Witness ==
    /\ pc = "done"
    /\ Len(layout) >= 2
    /\ CallCount("parse") >= 1
    /\ CallCount("finish") = 1

\* C8: a layout error ends the run at once: nothing more is pulled or
\* called, no object is constructed and the partly filled attribute map is
\* not handed out.
C8_ErrorIsAHardStop ==
    err.kind # "none" =>
        /\ Terminated
        /\ pc = "error"
        /\ ~obj.made
        /\ obj.fields = <<>>
        /\ CallCount("finish") = 0
        /\ CallCount("cls") = 0

C8_Witness ==
    /\ pc = "error"
    /\ err.kind = "name"
    /\ DOMAIN attributes # {}
    /\ pos < Len(accounts)

\* The first Len(layout) skeleton candidates are the layout's entries.
PrefixFollowsSkeleton ==
    /\ Len(SkeletonPositions) >= Len(layout)
    /\ \A n \in 1..Len(layout) : MatchesEntry(n)

\* C9: nothing is pulled after the account matched to the last layout
\* entry: whatever accounts follow it, the run succeeds with the attribute
\* map of the accounts up to it.
C9_NothingPulledAfterLastMatch ==
    PrefixFollowsSkeleton =>
        /\ pos <= SkeletonPositions[Len(layout)]
        /\ \A n \in 1..Len(calls) : calls[n].k <= SkeletonPositions[Len(layout)]
        /\ pc # "error"
        /\ Terminated => pc = "done"
        /\ pc = "done" => obj.made /\ HoldsMatchedQuantities(obj.fields)

C9_Witness ==
    /\ pc = "done"
    /\ pos < Len(accounts)
    /\ \E k \in (pos + 1)..Len(accounts) : ~DetailAt(k)
    /\ \E k \in (pos + 1)..Len(accounts) : DetailAt(k)

----------------------------------------------------------------------------
\* Vocabulary of the properties of from_accounts, stated on its arguments.

Categories == <<"Industrial", "Financial", "Insurance">>

\* Both sides of category c validate on the arguments.
BothSidesValidate(c) ==
    /\ Validate(Categories[c] \o "BPAValidator", bpa_accounts).ok
    /\ Validate(Categories[c] \o "BPPValidator", bpp_accounts).ok

\* c is the first category, in the order industrial, financial, insurance,
\* whose two sides validate.
FirstValid(c) ==
    /\ BothSidesValidate(c)
    /\ \A d \in 1..(c - 1) : ~BothSidesValidate(d)

\* The validators run so far are those of the pairs in the configured order,
\* no pair before an earlier one.
RunsInOrder ==
    \A m, n \in 1..Len(runs) :
        m < n =>
            \E c, d \in 1..3 :
                /\ c <= d
                /\ runs[m] \in {Categories[c] \o "BPAValidator", Categories[c] \o "BPPValidator"}
                /\ runs[n] \in {Categories[d] \o "BPAValidator", Categories[d] \o "BPPValidator"}

\* C10: the pairs are tried in the order industrial, financial, insurance
\* and the sheet returned is that of the first pair whose assets and
\* liabilities sides both validate; when there is such a pair no combined
\* error is raised, whatever failed before it.
C10_FirstValidPairWins ==
    /\ RunsInOrder
    /\ \A c \in 1..3 :
          FirstValid(c) =>
              /\ rpc \notin {"raise", "raised"}
              /\ raised = <<>>
              /\ ~ENABLED NextSheet => rpc = "returned"
              /\ rpc = "returned" =>
                    /\ sheet.made
                    /\ sheet.fields =
                          MergeAttrs(Validate(Categories[c] \o "BPAValidator", bpa_accounts).attrs,
                                     Validate(Categories[c] \o "BPPValidator", bpp_accounts).attrs)
                    /\ runs[Len(runs)] = Categories[c] \o "BPPValidator"
    /\ rpc = "returned" => \E c \in 1..3 : FirstValid(c)

C10_Witness ==
    /\ rpc = "returned"
    /\ FirstValid(3)
    /\ Len(error_str) = 2
    /\ Len(runs) = 5

BpaValidatorOf(c) == Categories[c] \o "BPAValidator"
BppValidatorOf(c) == Categories[c] \o "BPPValidator"

IsBpaValidator(name) == \E c \in 1..3 : name = BpaValidatorOf(c)

\* The category a validator belongs to.
CategoryOf(name) == CHOOSE c \in 1..3 : name \in {BpaValidatorOf(c), BppValidatorOf(c)}

\* The argument of from_accounts a validator is run on.
SideAccounts(name) == IF IsBpaValidator(name) THEN bpa_accounts ELSE bpp_accounts

\* C11: every attempt, assets or liabilities side of any pair, starts at the
\* first account of the unmodified sequence of its side, whatever earlier
\* attempts consumed, so that its outcome is that of its validator run alone
\* on the original sequence.
C11_EveryAttemptStartsAfresh ==
    \A n \in 1..Len(attempts) :
        LET a     == attempts[n]
            alone == Validate(a.validator, SideAccounts(a.validator))
        IN  /\ a.start = 0
            /\ a.ok = alone.ok
            /\ a.attrs = alone.attrs
            /\ a.error = alone.error

C11_Witness ==
    /\ rpc = "returned"
    /\ Len(attempts) >= 4
    /\ attempts[1].ok /\ attempts[1].pulled >= 2
    /\ ~attempts[2].ok /\ attempts[2].pulled >= 2
    /\ attempts[Len(attempts)].validator # attempts[2].validator

\* C13: when the assets validator of a pair fails, the liabilities validator
\* of that pair is not run: one error is recorded for the pair and the next
\* attempt, if any, is the assets validator of the next pair.
C13_AssetsFailureSkipsLiabilities ==
    \A n \in 1..Len(attempts) :
        LET a == attempts[n]
            c == CategoryOf(a.validator)
        IN  (IsBpaValidator(a.validator) /\ ~a.ok) =>
                /\ \A m \in 1..Len(runs) : runs[m] # BppValidatorOf(c)
                /\ Cardinality({ m \in 1..Len(error_str) :
                                    error_str[m][1] \in {BpaValidatorOf(c), BppValidatorOf(c)} }) = 1
                /\ \E m \in 1..Len(error_str) : error_str[m] = <<a.validator, a.error>>
                /\ n < Len(attempts) =>
                      /\ c < 3
                      /\ attempts[n + 1].validator = BpaValidatorOf(c + 1)
                /\ (n = Len(attempts) /\ c < 3) => (rpc = "bpa" /\ pair = c)

C13_Witness ==
    /\ Len(attempts) >= 3
    /\ IsBpaValidator(attempts[1].validator) /\ ~attempts[1].ok
    /\ IsBpaValidator(attempts[2].validator) /\ attempts[2].ok
    /\ Len(error_str) >= 1

\* C14: the sheet returned is built from the assets and the liabilities
\* attributes of one pair, produced by the last two attempts; assets
\* attributes of a pair whose liabilities side failed are not combined with
\* the liabilities attributes of another pair.
C14_SheetFromOnePair ==
    rpc = "returned" =>
        \E c \in 1..3 :
            /\ built_from = <<BpaValidatorOf(c), BppValidatorOf(c)>>
            /\ Len(attempts) >= 2
            /\ attempts[Len(attempts) - 1].validator = BpaValidatorOf(c)
            /\ attempts[Len(attempts) - 1].ok
            /\ attempts[Len(attempts)].validator = BppValidatorOf(c)
            /\ attempts[Len(attempts)].ok
            /\ bpa_attrs = attempts[Len(attempts) - 1].attrs
            /\ bpp_attrs = attempts[Len(attempts)].attrs
            /\ \A k \in DOMAIN sheet.fields :
                  sheet.fields[k] =
                      IF k \in DOMAIN attempts[Len(attempts) - 1].attrs
                      THEN attempts[Len(attempts) - 1].attrs[k]
                      ELSE attempts[Len(attempts)].attrs[k]

C14_Witness ==
    /\ rpc = "returned"
    /\ \E n \in 1..(Len(attempts) - 2) :
          /\ IsBpaValidator(attempts[n].validator)
          /\ attempts[n].ok
          /\ ~attempts[n + 1].ok
          /\ built_from[1] # attempts[n].validator

\* Failed attempts as (validator, error), in the order attempted.
FailedAttempts ==
    LET failed == SelectSeq(attempts, LAMBDA a : ~a.ok)
    IN  [n \in 1..Len(failed) |-> <<failed[n].validator, failed[n].error>>]

\* C15: when every pair fails, one combined error is raised that holds
\* exactly one (validator, error) entry per configured pair, in the order
\* the pairs were attempted, no recorded error being dropped.
C15_CombinedErrorHasOneEntryPerPair ==
    /\ rpc = "raised" =>
          /\ Len(raised) = 3
          /\ \A n \in 1..Len(raised) :
                /\ raised[n][1] \in {BpaValidatorOf(n), BppValidatorOf(n)}
                /\ raised[n][2].kind # "none"
                /\ raised[n][2] = Validate(raised[n][1], SideAccounts(raised[n][1])).error
          /\ raised = FailedAttempts
          /\ ~sheet.made
    /\ raised # <<>> => rpc = "raised"
    /\ ((\A c \in 1..3 : ~BothSidesValidate(c)) /\ ~ENABLED NextSheet) => rpc = "raised"

C15_Witness ==
    /\ rpc = "raised"
    /\ \E n \in 1..Len(raised) : IsBpaValidator(raised[n][1])
    /\ \E n \in 1..Len(raised) : ~IsBpaValidator(raised[n][1])

\* C17: on success of both sides the sheet's fields are exactly the union of
\* the assets and the liabilities attribute maps of the winning pair, each
\* with the value of its map, the two key sets being disjoint.
C17_SheetIsDisjointUnion ==
    /\ rpc # "type_error"
    /\ rpc = "returned" =>
          /\ sheet.made
          /\ (DOMAIN bpa_attrs) \cap (DOMAIN bpp_attrs) = {}
          /\ DOMAIN sheet.fields = (DOMAIN bpa_attrs) \cup (DOMAIN bpp_attrs)
          /\ \A k \in DOMAIN bpa_attrs : sheet.fields[k] = bpa_attrs[k]
          /\ \A k \in DOMAIN bpp_attrs : sheet.fields[k] = bpp_attrs[k]
          /\ bpa_attrs = Validate(built_from[1], bpa_accounts).attrs
          /\ bpp_attrs = Validate(built_from[2], bpp_accounts).attrs

C17_Witness ==
    /\ rpc = "returned"
    /\ DOMAIN sheet.fields =
          {"total_assets", "cash_and_cash_equivalents", "total_liabilities", "equity"}
    /\ sheet.fields["cash_and_cash_equivalents"] = 60
    /\ sheet.fields["equity"] = 450

----------------------------------------------------------------------------
\* Properties of Statement._parse_balance

\* The statement's accounts follow the layout of candidate class cls.
ConformsTo(cls) == ConstructBalance(cls, st_accounts, 0).ok

\* C12 as stated: every candidate class is matched from the first account
\* of the statement, so a statement that follows the layout of the second
\* or third candidate is parsed after the earlier candidates failed.
C12_EveryCandidateStartsAtFirstAccount ==
    /\ \A n \in 1..Len(st_attempts) : st_attempts[n].start = 0
    /\ \A n \in 2..Len(cls_list) :
          (ConformsTo(cls_list[n]) /\ st_pc \in {"done", "raised"}) =>
              st_result.kind = "balance"

\* Diagnostics of the failed candidates, in the order attempted.
CandidateErrors ==
    LET failed == SelectSeq(st_attempts, LAMBDA a : ~a.ok)
    IN  [n \in 1..Len(failed) |-> <<failed[n].cls, failed[n].error>>]

\* C16 as stated: when every candidate fails, the error raised carries the
\* diagnostic of every failed attempt, in the order attempted.
C16_FinalErrorCarriesDiagnostics ==
    st_pc = "raised" =>
        /\ st_result.kind = "value_error"
        /\ st_result.attempts = CandidateErrors

----------------------------------------------------------------------------
\* Properties of the derived fields of one BalanceSheet

BothLoansPresent ==
    bs.current_loans_and_financing.some /\ bs.noncurrent_loans_and_financing.some

LoanSum == bs.current_loans_and_financing.v + bs.noncurrent_loans_and_financing.v

\* C18: gross_debt is the absolute value of the sum of the two loan fields
\* when both are present, and None, not zero, when either is absent.
C18_GrossDebtIsAbsoluteSum ==
    \A n \in 1..Len(reads) :
        reads[n].attr = "gross_debt" =>
            IF BothLoansPresent
            THEN /\ reads[n].value.some
                 /\ reads[n].value.v >= 0
                 /\ reads[n].value.v \in {LoanSum, 0 - LoanSum}
            ELSE /\ ~reads[n].value.some
                 /\ reads[n].value # Some(0)

C18_Witness ==
    /\ bs.current_loans_and_financing = Some(100)
    /\ bs.noncurrent_loans_and_financing = Some(-400)
    /\ Len(reads) >= 1
    /\ reads[1] = [attr |-> "gross_debt", value |-> Some(300)]

\* C19: net_debt is gross_debt minus cash_and_cash_equivalents whenever
\* gross_debt is defined, and None whenever gross_debt is undefined.
C19_NetDebtIsGrossMinusCash ==
    \A n \in 1..Len(reads) :
        reads[n].attr = "net_debt" =>
            IF BothLoansPresent
            THEN \E g \in {LoanSum, 0 - LoanSum} :
                    /\ g >= 0
                    /\ reads[n].value = Some(g - bs.cash_and_cash_equivalents.v)
            ELSE ~reads[n].value.some

C19_Witness ==
    /\ bs = Fields(Some(100), Some(-400), Some(50))
    /\ Len(reads) >= 1
    /\ reads[1] = [attr |-> "net_debt", value |-> Some(250)]

\* C20: for one BalanceSheet each of the two formulas is evaluated at most
\* once, and every read after the first returns the value of the first read.
C20_DerivedFieldsEvaluatedOnce ==
    /\ evals.gross_debt <= 1
    /\ evals.net_debt <= 1
    /\ \A m, n \in 1..Len(reads) :
          reads[m].attr = reads[n].attr => reads[m].value = reads[n].value
    /\ \A n \in 1..Len(reads) :
          /\ reads[n].attr = "gross_debt" => evals.gross_debt = 1
          /\ reads[n].attr = "net_debt" => (evals.net_debt = 1 /\ evals.gross_debt = 1)

C20_Witness ==
    /\ Len(reads) >= 4
    /\ reads[1].attr = "net_debt"
    /\ reads[2].attr = "gross_debt"
    /\ reads[3].attr = "net_debt"
    /\ reads[4].attr = "gross_debt"
    /\ reads[1].value.some
    /\ evals = [gross_debt |-> 1, net_debt |-> 1]

----------------------------------------------------------------------------
\* Further properties of make_balance.

\* The entry a skeleton candidate at position k is compared with: the one
\* after as many entries as there are skeleton candidates before k.
EntryOf(k) == Cardinality({ j \in 1..(k - 1) : ~DetailAt(j) })

\* C26: a skeleton candidate that differs from the current entry in both
\* code and name is reported as a code mismatch (found and expected code),
\* and a name mismatch is only ever reported for an account whose code
\* equals the expected code.
C26_CodeIsComparedBeforeName ==
    /\ pc # "start" =>
          \A k \in 1..pos :
              (/\ ~DetailAt(k)
               /\ EntryOf(k) < Len(layout)
               /\ accounts[k].code # layout[EntryOf(k) + 1][1]
               /\ accounts[k].name # layout[EntryOf(k) + 1][2]) =>
                  /\ err.kind = "code"
                  /\ err.found = accounts[k].code
                  /\ err.expected = layout[EntryOf(k) + 1][1]
    /\ err.kind = "name" => accounts[pos].code = layout[err.index + 1][1]

C26_Witness ==
    /\ pc = "error"
    /\ err.kind = "code"
    /\ err.index >= 1
    /\ accounts[pos].code # layout[err.index + 1][1]
    /\ accounts[pos].name # layout[err.index + 1][2]

\* The calls that took an account from the iterator, in call order.
Pulls == SelectSeq(calls, LAMBDA c : c.op \in {"compare", "parse"})

\* C27: at every point of a run the number of entries matched (i) is the
\* number of skeleton candidates pulled, less the one that failed if the run
\* ended in a mismatch; the j-th skeleton candidate is compared with the
\* j-th entry, and a detail account is handed to the parser with the layout
\* position left where it was and no attribute stored.
C27_LayoutPositionCountsSkeletonCandidates ==
    pc # "start" =>
        LET cand   == { k \in 1..pos : ~DetailAt(k) }
            failed == IF err.kind \in {"code", "name"} THEN 1 ELSE 0
        IN  /\ i = Cardinality(cand) - failed
            /\ Cardinality(DOMAIN attributes) = i
            /\ \A n \in 1..Len(calls) :
                  calls[n].op \in {"compare", "parse"} =>
                      /\ calls[n].idx = EntryOf(calls[n].k)
                      /\ calls[n].op = "compare" <=> ~DetailAt(calls[n].k)

C27_Witness ==
    /\ pc = "done"
    /\ i = 3
    /\ \E k \in 1..pos : DetailAt(k) /\ k < pos

\* C28: the accounts are pulled one by one in sequence order, each at most
\* once: the n-th account taken from the iterator is the n-th account of
\* the sequence, and as many were taken as the cursor has advanced.
C28_CursorOnlyMovesForward ==
    /\ pos <= Len(accounts)
    /\ Len(Pulls) = pos
    /\ \A n \in 1..Len(Pulls) : Pulls[n].k = n

C28_Witness ==
    /\ pc = "done"
    /\ pos = MaxAccounts
    /\ \E n \in 1..Len(Pulls) : Pulls[n].op = "parse"

\* make_balance has returned or raised, with no more accounts pulled than
\* the sequence holds.
MatcherHalted ==
    /\ pc \in {"done", "error"}
    /\ pos <= Len(accounts)
    /\ Len(Pulls) <= Len(accounts)

\* from_accounts has returned or raised, after at most two attempts for each
\* configured pair.
ResolverHalted ==
    /\ rpc \in {"returned", "raised", "type_error"}
    /\ Len(attempts) <= 2 * Len(validator_pairs)
    /\ \A c \in 1..3 :
          Cardinality({ n \in 1..Len(attempts) : CategoryOf(attempts[n].validator) = c }) <= 2

\* C22: every call of make_balance on a finite sequence and a non-empty
\* layout returns or raises after pulling at most len(accounts) accounts,
\* and every call of from_accounts returns or raises after at most two
\* attempts per configured pair.
C22_EveryCallTerminates == <>(MatcherHalted \/ ResolverHalted)

C22_Witness ==
    /\ rpc = "raised"
    /\ Len(attempts) = 5
    /\ ResolverHalted

\* C29: in one call of from_accounts no validator is run twice, and after a
\* failed attempt no validator of the same pair is run again.
C29_NoValidatorRunTwice ==
    /\ \A m, n \in 1..Len(runs) : m # n => runs[m] # runs[n]
    /\ \A m, n \in 1..Len(attempts) :
          (m < n /\ ~attempts[m].ok) =>
              CategoryOf(attempts[n].validator) > CategoryOf(attempts[m].validator)

C29_Witness ==
    /\ rpc = "returned"
    /\ Len(attempts) = 5
    /\ ~attempts[2].ok
    /\ ~attempts[3].ok

\* C30 as stated: max_layout_level is computed before any account is
\* pulled, is the deepest level of the layout's expected codes and stays
\* what it is for the whole run; and with a layout of zero entries the run
\* ends as a match: nothing pulled, finish called, an object built from the
\* empty attribute map.
C30_LevelComputedOnceEmptyLayoutMatches ==
    /\ pc = "start" => pos = 0
    /\ (pc \notin {"start", "value_error"} /\ layout # <<>>) =>
          max_layout_level = SkeletonDepth
    /\ layout = <<>> =>
          /\ err.kind = "none"
          /\ ~ENABLED NextAnyLayout =>
                /\ pc = "done"
                /\ pos = 0
                /\ CallCount("finish") = 1
                /\ obj = [made |-> TRUE, fields |-> <<>>]

\* C21 as stated: whatever is done with a BalanceSheet, a cached gross_debt
\* or net_debt is what the property's formula gives on the fields the
\* BalanceSheet has now.
C21_CachedDebtMatchesCurrentFields ==
    /\ IsCached(bs_dict, "gross_debt") => bs_dict["gross_debt"] = gross_debt(bs)
    /\ IsCached(bs_dict, "net_debt") => bs_dict["net_debt"] = net_debt(bs, gross_debt(bs))

\* The accounts handed to parser.parse in the call in progress, in call
\* order.
ParsedAccounts == [n \in 1..Len(ParsedPositions) |-> accounts[ParsedPositions[n]]]

\* C24: the parser a call of make_balance works with holds what this call
\* handed to parse and nothing else, at every parse and at finish, whatever
\* the parsers of earlier calls were handed.
C24_ParserIsFreshPerCall ==
    pc \notin {"start", "idle"} => parser = ParsedAccounts

C24_Witness ==
    /\ Len(earlier) = 1
    /\ earlier[1] # <<>>
    /\ pc = "done"
    /\ parser # <<>>
    /\ parser # earlier[1]

----------------------------------------------------------------------------
\* Properties of calls of from_accounts in progress side by side.

\* What from_accounts gives on bpa and bpp when nothing else runs, n pairs
\* having failed with the errors errs.
RECURSIVE Alone(_, _, _, _)
Alone(bpa, bpp, n, errs) ==
    IF n >= Len(validator_pairs)
    THEN [kind |-> "raised", fields |-> <<>>, errors |-> errs]
    ELSE LET va == validator_pairs[n + 1][1]
             vb == validator_pairs[n + 1][2]
             a  == Validate(va, bpa)
             b  == Validate(vb, bpp)
         IN  IF ~a.ok THEN Alone(bpa, bpp, n + 1, Append(errs, <<va, a.error>>))
             ELSE IF ~b.ok THEN Alone(bpa, bpp, n + 1, Append(errs, <<vb, b.error>>))
             ELSE [kind |-> "returned", fields |-> MergeAttrs(a.attrs, b.attrs),
                   errors |-> <<>>]

CallerDone(p) == frames[p].rpc \in {"returned", "raised", "type_error"}

\* What call p returned or raised.
Outcome(p) ==
    [kind |-> frames[p].rpc, fields |-> frames[p].sheet.fields,
     errors |-> frames[p].raised]

\* C23: however the steps of the calls interleave, each call ends with the
\* BalanceSheet or the combined error it would give when run alone on its
\* account sequences.
C23_ConcurrentCallsDoNotInterfere ==
    \A p \in Callers :
        CallerDone(p) =>
            Outcome(p) = Alone(frames[p].bpa_accounts, frames[p].bpp_accounts, 0, <<>>)

C23_Witness ==
    /\ CallerDone(1) /\ CallerDone(2)
    /\ frames[1].rpc = "raised"
    /\ frames[2].rpc = "returned"
    /\ lists[2] # <<>>
    /\ frames[1].bpa_accounts # frames[2].bpa_accounts

----------------------------------------------------------------------------
\* Claims about _read_raw_statements and reader

RowNumbers == [n \in 1..Len(fates) |-> n]

\* The row numbers of the accounts of a statement, in list order.
SourcesOf(accs) == [k \in 1..Len(accs) |-> accs[k].src]

\* The rows that reached line 183 under the key, in file order.
AppendedUnder(key) ==
    SelectSeq(RowNumbers, LAMBDA n : /\ fates[n] = "appended"
                                     /\ StmtKey(csv_rows[n]) = key)

\* C31: every account of a statement comes from a row of the group, the
\* version and the fiscal-year order of the row that made the statement.
C31_AccountsBelongToOneStatement ==
    \A n \in 1..Len(stmts) : \A k \in 1..Len(stmts[n].accounts) :
        LET row == csv_rows[stmts[n].accounts[k].src]
        IN  /\ row.GRUPO_DFP = stmts[n].group
            /\ row.VERSAO = stmts[n].version
            /\ row.ORDEM_EXERC = stmts[n].fiscal_year_order

\* C32: the accounts of every statement are the rows appended under its key,
\* in the order of the file, each with its row's code and quantity; the
\* Statement reader yields holds them, as far as it read them, in that order.
C32_AccountsKeepRowOrder ==
    /\ \A n \in 1..Len(stmts) :
          /\ SourcesOf(stmts[n].accounts) = AppendedUnder(stmts[n].key)
          /\ \A k \in 1..Len(stmts[n].accounts) :
                LET acc == stmts[n].accounts[k]
                IN  /\ acc.code = csv_rows[acc.src].CD_CONTA
                    /\ acc.quantity = csv_rows[acc.src].VL_CONTA
    /\ \A n \in 1..Len(yielded) :
          LET r   == yielded[n]
              raw == stmts[n]
          IN  /\ Len(r.accounts) <= Len(raw.accounts)
              /\ \A k \in 1..Len(r.accounts) :
                    /\ r.accounts[k].src = raw.accounts[k].src
                    /\ r.accounts[k].code = raw.accounts[k].code

C32_Witness ==
    /\ Len(yielded) = 2
    /\ SourcesOf(yielded[1].accounts) = <<1, 3>>
    /\ SourcesOf(yielded[2].accounts) = <<2>>

\* The row is left out by one of the three continue statements.
Dropped(n) == fates[n] \in {"duplicate", "no_key", "no_field"}

\* The row equals the nearest row before it that passed line 143.
RepeatsKeptRow(n) ==
    \E m \in 1..(n - 1) :
        /\ fates[m] # "duplicate"
        /\ \A j \in (m + 1)..(n - 1) : fates[j] = "duplicate"
        /\ Visible(csv_rows[n], csv_missing) = Visible(csv_rows[m], csv_missing)

\* The number of accounts made from the row.
Contribution(n) ==
    Cardinality({ c \in { <<s, k>> : s \in 1..Len(stmts), k \in 1..MaxRows + 1 } :
                    /\ c[2] <= Len(stmts[c[1]].accounts)
                    /\ stmts[c[1]].accounts[c[2]].src = n })

AssignedBeforeError(raw) ==
    IF ~IsInt(raw.version) THEN {}
    ELSE IF read_statement_group(raw.group) = <<>> THEN {"version"}
    ELSE IF raw.fiscal_year_order \notin FiscalYearOrder
    THEN {"version", "group", "consolidated"}
    ELSE {"version", "group", "consolidated", "fiscal_year_order", "accounts"}

\* The accounts before the first quantity that is not a number.
GoodPrefix(accs) ==
    IF \E k \in 1..Len(accs) : ~IsFloat(accs[k].quantity)
    THEN SubSeq(accs, 1, (CHOOSE k \in 1..Len(accs) :
                             /\ ~IsFloat(accs[k].quantity)
                             /\ \A j \in 1..(k - 1) : IsFloat(accs[j].quantity)) - 1)
    ELSE accs

\* A conversion of the raw statement raises ValueError.
RaisesValueError(raw) ==
    \/ AssignedBeforeError(raw) # {"version", "group", "consolidated",
                                   "fiscal_year_order", "accounts"}
    \/ GoodPrefix(raw.accounts) # raw.accounts

----------------------------------------------------------------------------
\* Claims about Statement.balance

\* The classes tried so far, in the order tried.
TriedClasses == [n \in 1..Len(st_attempts) |-> st_attempts[n].cls]

\* The candidate classes of a group, in the order Statement.balance names
\* them.
LayoutsOf(group) ==
    IF group = "BPA"
    THEN <<"bpa.FinancialCompanyBalance", "bpa.IndustrialCompanyBalance",
           "bpa.InsuranceCompanyBalance">>
    ELSE IF group = "DRE" THEN <<"dre.IndustrialCompanyBalance">>
    ELSE <<>>

\* C35: a BPA statement is tried against the three BPA layouts, a DRE
\* statement against the one DRE layout, each in order and up to the first
\* that matches; a statement of any other group is tried against none and
\* its balance is None, no error being raised.
C35_BalanceDispatchesOnGroup ==
    /\ TriedClasses = SubSeq(LayoutsOf(st_group), 1, Len(st_attempts))
    /\ st_pc = "raised" => Len(st_attempts) = Len(LayoutsOf(st_group))
    /\ (st_pc = "done" /\ st_result.kind = "balance") =>
          /\ st_attempts # <<>>
          /\ st_result.cls = st_attempts[Len(st_attempts)].cls
    /\ st_group \notin {"BPA", "DRE"} =>
          /\ st_pc \in {"balance", "done"}
          /\ st_pc = "done" => st_result.kind = "returned_none"
    /\ st_group \in {"BPA", "DRE"} => st_result.kind # "returned_none"

C35_Witness ==
    /\ st_group = "BPP"
    /\ st_accounts # <<>>
    /\ st_pc = "done"
    /\ st_result.kind = "returned_none"
    /\ st_attempts = <<>>

----------------------------------------------------------------------------
\* Claims about fca._reader and read_many

\* C36: the FCAs yielded are one per document read from the head file, in
\* the order of the head file, each with the id of its head; the generator
\* ends only when the head reader is exhausted, and has then yielded an FCA
\* for every document, whatever the body readers did.
C36_OneFcaPerHead ==
    /\ fcas = SubSeq(heads, 1, Len(fcas))
    /\ Len(fcas) = IF f_pc \in {"head", "done"} THEN head_idx ELSE head_idx - 1
    /\ last_fca # <<>> => last_fca[1].id = heads[head_idx]
    /\ f_pc = "done" => (head_idx = Len(heads) /\ fcas = heads)

C36_Witness ==
    /\ f_pc = "done"
    /\ Len(fcas) = 2
    /\ heads[1] # heads[2]
    /\ \E n \in 1..Len(body_reads) : body_reads[n].outcome = "StopIteration"
    /\ \E n \in 1..Len(body_reads) : body_reads[n].outcome = "ok"

\* The read of the part for the current head, once made.
ReadOf(reader) == body_reads[IndexOf(reader)]

Failed(reader) == ReadOf(reader).outcome # "ok"

\* What the part is when its read fails, and when it returns.
EmptyPart(reader) ==
    IF reader = "issuer_company" THEN NoneValue ELSE ListOf(<<>>)

PartOf(reader, id) ==
    IF Failed(reader) THEN EmptyPart(reader)
    ELSE IF reader = "issuer_company"
    THEN IssuerCompany(id,
                       IF Failed("trading_admissions") THEN ListOf(<<>>)
                       ELSE ListOf(<<[of |-> "trading_admissions", id |-> id]>>),
                       IF Failed("addresses") THEN ListOf(<<>>)
                       ELSE ListOf(<<[of |-> "addresses", id |-> id]>>))
    ELSE ListOf(<<[of |-> reader, id |-> id]>>)

\* C37: for every head the eight body readers are called in the fixed order
\* with the head's id, whichever of them fail; the FCA is yielded after the
\* eighth; a part whose read failed is the empty list (None for the issuer
\* company) and every other part is what its reader returned.
C37_FailureAffectsOnlyItsPart ==
    /\ [n \in 1..Len(body_reads) |-> body_reads[n].reader]
          = SubSeq(BodyReaders, 1, Len(body_reads))
    /\ \A n \in 1..Len(body_reads) : body_reads[n].id = heads[head_idx]
    /\ f_pc \in BodyReaderSet => f_pc = BodyReaders[Len(body_reads) + 1]
    /\ f_pc = "yield" => Len(body_reads) = Len(BodyReaders)
    /\ last_fca # <<>> =>
          /\ Len(body_reads) = Len(BodyReaders)
          /\ LET fca == last_fca[1]
             IN  /\ fca.issuer_company = PartOf("issuer_company", fca.id)
                 /\ fca.securities = PartOf("securities", fca.id)
                 /\ fca.auditors = PartOf("auditors", fca.id)
                 /\ fca.bookkeeping_agents = PartOf("bookkeeping_agents", fca.id)
                 /\ fca.investor_relations_department = PartOf("ird", fca.id)
                 /\ fca.shareholder_department = PartOf("shareholder_dept", fca.id)

C37_Witness ==
    /\ last_fca # <<>>
    /\ head_idx = 2
    /\ ReadOf("issuer_company").outcome = "BadDocument"
    /\ ReadOf("auditors").outcome = "UnexpectedBatch"
    /\ last_fca[1].issuer_company = NoneValue
    /\ last_fca[1].auditors = ListOf(<<>>)
    /\ last_fca[1].securities # ListOf(<<>>)

\* The lines of the batch gone through on which read_function returned.
GoodLines ==
    SelectSeq([n \in 1..line |-> n], LAMBDA n : ~batch[n].bad)

\* C38: items holds what read_function returned for the rows gone through on
\* which it did not raise BadDocument, in the order of the batch; a row on
\* which it raised is skipped and the rows after it are gone through, the
\* list being returned after the last row.
C38_ItemsAreTheReadableRows ==
    /\ items = [n \in 1..Len(GoodLines) |-> batch[GoodLines[n]].item]
    /\ skipped = SelectSeq([n \in 1..line |-> n], LAMBDA n : batch[n].bad)
    /\ rm_pc = "returned" => line = Len(batch)

C38_Witness ==
    /\ rm_pc = "returned"
    /\ skipped = <<2>>
    /\ items = <<"a", "b">>
====
